---- MODULE Spec2Model ----
(***************************************************************************)
(* URI-template pipeline of gwm-router: the lexer goroutine (Lex, run and  *)
(* its state functions), the item channel (with no buffer), and the two    *)
(* consumers of that channel: parser.Parse and the test helper collect;    *)
(* Expr.String; escape.Escape and its classification table; and            *)
(* execute.Execute with its exprWriter.                                    *)
(*                                                                         *)
(* Strings are sequences of byte values (0..255); Go's 0-based offsets are *)
(* kept, so byte i of a string s is s[i+1].                                *)
(***************************************************************************)
EXTENDS Integers, Sequences, FiniteSets, TLC

VARIABLES input, consumer, l, lstate, lpc, pending, closed,
          p, pstate, ppc, result, items, handled,
          orig, esc, exec, ch, other

vars == <<input, consumer, l, lstate, lpc, pending, closed,
          p, pstate, ppc, result, items, handled, orig, esc, exec, ch, other>>

(***************************************************************************)
(* Bytes the code names.                                                   *)
(***************************************************************************)
SLASH == 47
PERCENT == 37
LBRACE == 123
RBRACE == 125
DOT == 46
COMMA == 44
STAR == 42
COLON == 58
SPACE == 32
LowerA == 97
Digit0 == 48
Digit1 == Digit0 + 1
Digit9 == 57

\* The operator characters "+#./;?&" of lexBeginExpr.
OpChars == {43, 35, 46, 47, 59, 63, 38}

\* The reserved operator characters "=,!@|" of lexBeginExpr.
ReservedOpChars == {61, 44, 33, 64, 124}

\* The characters lexRaw rejects besides c <= ' ':  " ' < > \ ^ | } `
IllegalRawChars == {34, 39, 60, 62, 92, 94, 124, 125, 96}

(***************************************************************************)
(* Bounds of the model.                                                    *)
(***************************************************************************)
\* longest template drawn from the whole alphabet
MaxLen == 3
\* longest expression body (the bytes after '{') drawn from ExprAlphabet
MaxBody == 4
\* longest digit run after "{a:"
MaxDigits == 5
\* most chunks in a template assembled from ChunkSet
MaxChunks == 4
MaxEscLen == 3
MaxVars == 2
MaxFail == 2
\* width of the model's int (Go's int is 32 or 64 bits wide)
IntBits == 24

(***************************************************************************)
(* Modifier tags (parser.Mod).                                             *)
(***************************************************************************)
ModNone == 0
ModPrefix == 16384
ModExplode == 32768

(***************************************************************************)
(* Helpers on byte strings.                                                *)
(***************************************************************************)
SeqsUpTo(S, n) == UNION {[1..k -> S] : k \in 0..n}

RECURSIVE Concat(_)
Concat(ss) == IF ss = <<>> THEN <<>> ELSE Head(ss) \o Concat(Tail(ss))

Pow2(n) == 2 ^ n
MinInt == -Pow2(IntBits - 1)

\* two's-complement wrap-around of int arithmetic
WrapInt(x) == ((x + Pow2(IntBits - 1)) % Pow2(IntBits)) - Pow2(IntBits - 1)

(***************************************************************************)
(* Items.  Go's Item is {Typ, Val, Pos}; for an ItemError Val is the       *)
(* formatted message, kept here as Msg = its format and its argument.      *)
(***************************************************************************)
NoMsg == [what |-> "", c |-> 0]
NoItem == [Typ |-> "none", Val |-> <<>>, Pos |-> 0, Msg |-> NoMsg]

Item(typ, val, pos) == [Typ |-> typ, Val |-> val, Pos |-> pos, Msg |-> NoMsg]

ErrorIllegal(c) == [what |-> "found illegal character", c |-> c]
ErrorUnfinishedPercent == [what |-> "expected two hex digits", c |-> 0]
ErrorIllegalPercent(r) == [what |-> "expected two hex digits, got", c |-> r]
ErrorUnfinishedExpr == [what |-> "expected '}', got EOF", c |-> 0]
ErrorEmptyExpr == [what |-> "empty expression", c |-> 0]
ErrorUnexpected(c) == [what |-> "unexpected", c |-> c]
ErrorReservedOp(c) == [what |-> "unexpected reserved operator", c |-> c]
ErrorExpectedLength == [what |-> "expected length", c |-> 0]

(***************************************************************************)
(* The lexer.  A lexer value is [input, start, pos]; a state function      *)
(* returns [l, out, state]: the lexer after the call, the items it sent    *)
(* (none or one) and the state function it returns ("nil" ends run).       *)
(***************************************************************************)
LexRet(lx, out, state) == [l |-> lx, out |-> out, state |-> state]

eof(lx) == lx.pos >= Len(lx.input)

peek(lx) == IF eof(lx) THEN [c |-> 0, eof |-> TRUE]
            ELSE [c |-> lx.input[lx.pos + 1], eof |-> FALSE]

\* the offset an emitted item carries
emitPos(lx) == lx.start

emit(lx, typ, state) ==
    LexRet([lx EXCEPT !.start = lx.pos],
           <<Item(typ, SubSeq(lx.input, lx.start + 1, lx.pos), emitPos(lx))>>,
           state)

emitRaw(lx, s, state) ==
    LexRet([lx EXCEPT !.start = lx.pos], <<Item("ItemRaw", s, emitPos(lx))>>, state)

\* error as it would be if the state function went on after the error item
error_goesOn(lx, msg) ==
    LexRet(lx, <<[Typ |-> "ItemError", Val |-> <<>>, Pos |-> lx.pos, Msg |-> msg]>>,
           "lexPath")

error(lx, msg) ==
    LexRet(lx, <<[Typ |-> "ItemError", Val |-> <<>>, Pos |-> lx.pos, Msg |-> msg]>>,
           "nil")

isVarchar(c) ==
    \/ c >= 97 /\ c <= 122
    \/ c >= 65 /\ c <= 90
    \/ c >= Digit0 /\ c <= Digit9
    \/ c = 95

isDigit(c) == c >= Digit0 /\ c <= Digit9

lexPath(lx) ==
    IF eof(lx) THEN emit(lx, "ItemEOF", "nil")
    ELSE LET c == lx.input[lx.pos + 1]
             nx == [lx EXCEPT !.pos = lx.pos + 1]
         IN CASE c = SLASH -> emit(nx, "ItemSep", "lexPath")
              [] c = PERCENT -> LexRet(nx, <<>>, "lexPercent")
              [] c = LBRACE -> emit(nx, "ItemLacc", "lexBeginExpr")
              [] OTHER -> LexRet(lx, <<>>, "lexRaw")

\* the limit as it would be if a literal did not end at '/'
IndexAnyFrom_noSlash(lx) ==
    LET hits == {i \in lx.pos .. Len(lx.input) - 1 :
                    lx.input[i + 1] \in {LBRACE, PERCENT}}
    IN IF hits = {} THEN lx.pos - 1
       ELSE CHOOSE i \in hits : \A j \in hits : i <= j

\* strings.IndexAny(l.input[l.pos:], "/{%") + l.pos, -1 + l.pos when none
IndexAnyFrom(lx) ==
    LET hits == {i \in lx.pos .. Len(lx.input) - 1 :
                    lx.input[i + 1] \in {SLASH, LBRACE, PERCENT}}
    IN IF hits = {} THEN lx.pos - 1
       ELSE CHOOSE i \in hits : \A j \in hits : i <= j

IllegalRaw(c) == c <= SPACE \/ c \in IllegalRawChars

lexRaw(lx) ==
    LET found == IndexAnyFrom(lx)
        limit == IF found < lx.pos THEN Len(lx.input) ELSE found
        bad == {i \in lx.pos .. limit - 1 : IllegalRaw(lx.input[i + 1])}
    IN IF bad # {}
       THEN LET i == CHOOSE i \in bad : \A j \in bad : i <= j
            IN error([lx EXCEPT !.pos = i + 1], ErrorIllegal(lx.input[i + 1]))
       ELSE emit([lx EXCEPT !.pos = limit], "ItemRaw", "lexPath")

\* encoding/hex fromHexChar
isHex(c) == isDigit(c) \/ (c >= 97 /\ c <= 102) \/ (c >= 65 /\ c <= 70)
\* fromHexChar as it would be if 'A'..'F' were read like 'a'..'f'
fromHexChar_lowerOnly(c) == IF isDigit(c) THEN c - 48 ELSE c - 97 + 10

fromHexChar(c) == IF isDigit(c) THEN c - 48
                  ELSE IF c >= 97 THEN c - 97 + 10 ELSE c - 65 + 10

lexPercent(lx) ==
    LET nx == [lx EXCEPT !.pos = lx.pos + 2]
    IN IF nx.pos > Len(lx.input) THEN error(nx, ErrorUnfinishedPercent)
       ELSE LET a == lx.input[nx.pos - 1]
                b == lx.input[nx.pos]
            IN IF ~isHex(a) THEN error(nx, ErrorIllegalPercent(a))
               ELSE IF ~isHex(b) THEN error(nx, ErrorIllegalPercent(b))
               ELSE emitRaw(nx, <<fromHexChar(a) * 16 + fromHexChar(b)>>, "lexPath")

lexBeginExpr(lx) ==
    LET pk == peek(lx)
    IN CASE pk.eof -> error(lx, ErrorUnfinishedExpr)
         [] ~pk.eof /\ pk.c = RBRACE -> error(lx, ErrorEmptyExpr)
         [] ~pk.eof /\ isVarchar(pk.c) -> LexRet(lx, <<>>, "lexInExpr")
         [] ~pk.eof /\ pk.c \in OpChars ->
                emit([lx EXCEPT !.pos = lx.pos + 1], "ItemOp", "lexInExpr")
         [] ~pk.eof /\ pk.c \in ReservedOpChars -> error(lx, ErrorReservedOp(pk.c))
         [] OTHER -> error(lx, ErrorUnexpected(pk.c))

\* end of the maximal run of variable characters that starts at offset i
RECURSIVE VarEnd(_, _)
VarEnd(s, i) == IF i < Len(s) /\ isVarchar(s[i + 1]) THEN VarEnd(s, i + 1) ELSE i

\* One pass of lexInExpr's loop, up to the item it sends; the loop has no
\* local state, so another pass is another call.
lexInExpr(lx) ==
    IF eof(lx) THEN error(lx, ErrorUnfinishedExpr)
    ELSE LET c == lx.input[lx.pos + 1]
             nx == [lx EXCEPT !.pos = lx.pos + 1]
         IN CASE c = RBRACE -> emit(nx, "ItemRacc", "lexPath")
              [] c = DOT -> emit(nx, "ItemDot", "lexInExpr")
              [] c = COMMA -> emit(nx, "ItemComma", "lexInExpr")
              [] isVarchar(c) ->
                    emit([lx EXCEPT !.pos = VarEnd(lx.input, lx.pos + 1)],
                         "ItemVar", "lexInExpr")
              [] c = STAR -> emit(nx, "ItemExplode", "lexInExpr")
              [] c = COLON -> emit(nx, "ItemPrefix", "lexLength")
              [] OTHER -> error(nx, ErrorUnexpected(c))

\* where lexLength's loop stops: at a non-digit or once l.pos > l.start+3
RECURSIVE LengthEnd(_, _)
LengthEnd(lx, i) ==
    IF i < Len(lx.input) /\ isDigit(lx.input[i + 1]) /\ ~(i > lx.start + 3)
    THEN LengthEnd(lx, i + 1) ELSE i

\* lexLength as it would be if it took a fifth digit
lexLength_fiveDigits(lx) ==
    LET e4 == LengthEnd(lx, lx.pos)
        e5 == IF e4 = lx.start + 4 /\ e4 < Len(lx.input) /\ isDigit(lx.input[e4 + 1])
              THEN e4 + 1 ELSE e4
        nx == [lx EXCEPT !.pos = e5]
    IN IF nx.pos = nx.start THEN error(nx, ErrorExpectedLength)
       ELSE emit(nx, "ItemLength", "lexInExpr")

lexLength(lx) ==
    LET nx == [lx EXCEPT !.pos = LengthEnd(lx, lx.pos)]
    IN IF nx.pos = nx.start THEN error(nx, ErrorExpectedLength)
       ELSE emit(nx, "ItemLength", "lexInExpr")

Terminal(it) == it.Typ \in {"ItemEOF", "ItemError"}

(***************************************************************************)
(* The Ast and the parser.  A part is nil (a path separator), a string or  *)
(* an Expr; the three are told apart by kind.                              *)
(***************************************************************************)
ZeroVar == [ID |-> <<>>, Mod |-> ModNone]
ZeroExpr == [Op |-> 0, Vars |-> <<>>]

NilPart == [kind |-> "nil", val |-> <<>>, expr |-> ZeroExpr]
StringPart(s) == [kind |-> "string", val |-> s, expr |-> ZeroExpr]
ExprPart(e) == [kind |-> "Expr", val |-> <<>>, expr |-> e]

EmptyAst == [Vars |-> {}, Parts |-> <<>>]

NewParser == [ast |-> EmptyAst, expr |-> ZeroExpr, variable |-> ZeroVar,
              raw |-> <<>>, item |-> NoItem]

\* errors a state function returns; "nil" is no error
NilErr == [what |-> "nil", State |-> ""]
DoubleModError == [what |-> "DoubleModError", State |-> ""]
ExpectedVarError == [what |-> "ExpectedVarError", State |-> ""]
AfterVarError == [what |-> "AfterVarError", State |-> ""]
LengthOver9999Error == [what |-> "LengthOver9999Error", State |-> ""]
UnimplementedError(st) == [what |-> "UnimplementedError", State |-> st]
LexerError == [what |-> "LexerError", State |-> ""]

\* what a parser state function returns: the parser, the next state, the error
PRet(q, state, err) == [p |-> q, state |-> state, err |-> err]

\* pushRawIfAny as it would be without the test p.raw.Len() > 0
pushRawIfAny_always(q) ==
    [q EXCEPT !.ast.Parts = Append(q.ast.Parts, StringPart(q.raw)), !.raw = <<>>]

pushRawIfAny(q) ==
    IF Len(q.raw) > 0
    THEN [q EXCEPT !.ast.Parts = Append(q.ast.Parts, StringPart(q.raw)),
                   !.raw = <<>>]
    ELSE q

\* pushSeparator as it would be without the test of the previous part
pushSeparator_always(q) == [q EXCEPT !.ast.Parts = Append(q.ast.Parts, NilPart)]

pushSeparator(q) ==
    IF Len(q.ast.Parts) = 0 \/ q.ast.Parts[Len(q.ast.Parts)] # NilPart
    THEN [q EXCEPT !.ast.Parts = Append(q.ast.Parts, NilPart)]
    ELSE q

\* appendVariablePart as it would be if every segment were recorded in Vars
appendVariablePart_everySegment(q) ==
    [q EXCEPT !.ast.Vars = q.ast.Vars \cup {q.item.Val},
              !.variable.ID = Append(q.variable.ID, q.item.Val)]

appendVariablePart(q) ==
    LET part == q.item.Val
        q1 == IF Len(q.variable.ID) = 0
              THEN [q EXCEPT !.ast.Vars = q.ast.Vars \cup {part}]
              ELSE q
    IN [q1 EXCEPT !.variable.ID = Append(q.variable.ID, part)]

pushVariable(q) ==
    [q EXCEPT !.expr.Vars = Append(q.expr.Vars, q.variable), !.variable = ZeroVar]

\* pushExpr as it would be without p.expr = Expr{}
pushExpr_keepsExpr(q) ==
    [q EXCEPT !.ast.Parts = Append(q.ast.Parts, ExprPart(q.expr))]

pushExpr(q) ==
    [q EXCEPT !.ast.Parts = Append(q.ast.Parts, ExprPart(q.expr)), !.expr = ZeroExpr]

assignOp(q) == [q EXCEPT !.expr.Op = q.item.Val[1]]

\* strconv.Atoi of a string of digits
RECURSIVE Atoi(_)
Atoi(s) == IF s = <<>> THEN 0
           ELSE Atoi(SubSeq(s, 1, Len(s) - 1)) * 10 + (s[Len(s)] - Digit0)

setVariableLength(q) == [q EXCEPT !.variable.Mod = ModPrefix + Atoi(q.item.Val)]

setVariableExplode(q) == [q EXCEPT !.variable.Mod = ModExplode]

noModifierOrError(q) == IF q.variable.Mod # 0 THEN DoubleModError ELSE NilErr

\* Mod & bit # 0, and Mod ^ bit, for a single-bit tag
HasBit(m, bit) == (m \div bit) % 2 = 1
XorBit(m, bit) == IF HasBit(m, bit) THEN m - bit ELSE m + bit

\* int(math.Log10(float64(n))).  For 1 <= n <= 9999 Go's Log10 is exact
\* enough that the conversion gives floor(log10 n); Log10(0) is -Inf, and
\* converting -Inf to int is implementation-dependent: ninf is its outcome.
IntLog10(n, ninf) ==
    CASE n = 0 -> ninf
      [] n >= 1 /\ n < 10 -> 0
      [] n >= 10 /\ n < 100 -> 1
      [] n >= 100 /\ n < 1000 -> 2
      [] n >= 1000 /\ n < 10000 -> 3
      [] OTHER -> 4

\* the outcomes of int(-Inf): the smallest int on amd64, arm64 and 386
IntOfNegInf == {MinInt}

\* afterVarOrLengthError as it would be without the test of the first byte
afterVarOrLengthError_anyByte(q, ninf) ==
    IF HasBit(q.variable.Mod, ModPrefix)
    THEN PRet([q EXCEPT !.item.Pos =
                   WrapInt(q.item.Pos
                           - WrapInt(IntLog10(XorBit(q.variable.Mod, ModPrefix), ninf) + 1))],
              "nil", LengthOver9999Error)
    ELSE PRet(q, "nil", AfterVarError)

afterVarOrLengthError(q, ninf) ==
    IF HasBit(q.variable.Mod, ModPrefix) /\ isDigit(q.item.Val[1])
    THEN PRet([q EXCEPT !.item.Pos =
                   WrapInt(q.item.Pos
                           - WrapInt(IntLog10(XorBit(q.variable.Mod, ModPrefix), ninf) + 1))],
              "nil", LengthOver9999Error)
    ELSE PRet(q, "nil", AfterVarError)

pRaw(q) ==
    CASE q.item.Typ = "ItemRaw" -> PRet([q EXCEPT !.raw = q.raw \o q.item.Val], "pRaw", NilErr)
      [] q.item.Typ = "ItemSep" -> PRet(pushSeparator(pushRawIfAny(q)), "pRaw", NilErr)
      [] q.item.Typ = "ItemLacc" -> PRet(pushRawIfAny(q), "pMaybeOp", NilErr)
      [] q.item.Typ = "ItemEOF" -> PRet(pushRawIfAny(q), "nil", NilErr)
      [] OTHER -> PRet(q, "pRaw", UnimplementedError("pRaw"))

\* pExpr as it would be if '}' were missing from the ExpectedVarError case
pExpr_noRacc(q) ==
    CASE q.item.Typ = "ItemVar" -> PRet(appendVariablePart(q), "pAfterVar", NilErr)
      [] q.item.Typ \in {"ItemComma", "ItemDot"} -> PRet(q, "pExpr", ExpectedVarError)
      [] OTHER -> PRet(q, "pExpr", UnimplementedError("pExpr"))

pExpr(q) ==
    CASE q.item.Typ = "ItemVar" -> PRet(appendVariablePart(q), "pAfterVar", NilErr)
      [] q.item.Typ \in {"ItemComma", "ItemDot", "ItemRacc"} ->
            PRet(q, "pExpr", ExpectedVarError)
      [] OTHER -> PRet(q, "pExpr", UnimplementedError("pExpr"))

pMaybeOp(q) ==
    IF q.item.Typ = "ItemOp" THEN PRet(assignOp(q), "pExpr", NilErr) ELSE pExpr(q)

pAfterVar(q, ninf) ==
    CASE q.item.Typ = "ItemRacc" -> PRet(pushExpr(pushVariable(q)), "pRaw", NilErr)
      [] q.item.Typ = "ItemDot" -> PRet(q, "pExpr", NilErr)
      [] q.item.Typ = "ItemComma" -> PRet(pushVariable(q), "pExpr", NilErr)
      [] q.item.Typ = "ItemPrefix" -> PRet(q, "pLength", noModifierOrError(q))
      [] q.item.Typ = "ItemExplode" ->
            PRet(setVariableExplode(q), "pAfterVar", noModifierOrError(q))
      [] q.item.Typ = "ItemVar" -> afterVarOrLengthError(q, ninf)
      [] OTHER -> PRet(q, "nil", UnimplementedError("pAfterVar"))

pLength(q) ==
    IF q.item.Typ = "ItemLength" THEN PRet(setVariableLength(q), "pAfterVar", NilErr)
    ELSE PRet(q, "nil", UnimplementedError("pLength"))

\* the call state(&p) of Parse's loop
CallState(st, q, ninf) ==
    CASE st = "pRaw" -> pRaw(q)
      [] st = "pMaybeOp" -> pMaybeOp(q)
      [] st = "pExpr" -> pExpr(q)
      [] st = "pAfterVar" -> pAfterVar(q, ninf)
      [] st = "pLength" -> pLength(q)

(***************************************************************************)
(* What Parse returns: an Ast pointer and an error.                        *)
(***************************************************************************)
NoResult == [astNil |-> TRUE, ast |-> EmptyAst, errNil |-> TRUE,
             Pos |-> 0, Err |-> NilErr, Item |-> NoItem]

ReturnAst(q) == [astNil |-> FALSE, ast |-> q.ast, errNil |-> TRUE,
                 Pos |-> 0, Err |-> NilErr, Item |-> NoItem]

\* ReturnError as it would be if Parse returned &p.ast beside the error
ReturnError_withAst(q, err) == [astNil |-> FALSE, ast |-> q.ast, errNil |-> FALSE,
                                Pos |-> q.item.Pos, Err |-> err, Item |-> q.item]

\* return nil, Error{Input: input, Pos: p.item.Pos, Err: err}
ReturnError(q, err) == [astNil |-> TRUE, ast |-> EmptyAst, errNil |-> FALSE,
                        Pos |-> q.item.Pos, Err |-> err, Item |-> q.item]

(***************************************************************************)
(* Expr.String: the template text of an expression.                        *)
(***************************************************************************)
\* strconv.Itoa of a number that is not negative
RECURSIVE Itoa(_)
Itoa(n) == IF n < 10 THEN <<Digit0 + n>>
           ELSE Itoa(n \div 10) \o <<Digit0 + (n % 10)>>

\* strings.Join(elems, sep)
RECURSIVE Join(_, _)
Join(elems, sep) ==
    IF elems = <<>> THEN <<>>
    ELSE IF Len(elems) = 1 THEN elems[1]
    ELSE elems[1] \o sep \o Join(Tail(elems), sep)

\* the text String writes for one variable, as it would be without the
\* length of a prefix modifier
VarString_noLength(v) ==
    Join(v.ID, <<DOT>>)
    \o (IF HasBit(v.Mod, ModExplode) THEN <<STAR>> ELSE <<>>)

\* the body of String's loop for one variable, the comma left out
VarString(v) ==
    Join(v.ID, <<DOT>>)
    \o (IF HasBit(v.Mod, ModPrefix)
        THEN <<COLON>> \o Itoa(XorBit(v.Mod, ModPrefix)) ELSE <<>>)
    \o (IF HasBit(v.Mod, ModExplode) THEN <<STAR>> ELSE <<>>)

\* func (e Expr) String() string
ExprString(e) ==
    <<LBRACE>>
    \o (IF e.Op > 0 THEN <<e.Op>> ELSE <<>>)
    \o Join([i \in 1..Len(e.Vars) |-> VarString(e.Vars[i])], <<COMMA>>)
    \o <<RBRACE>>

(***************************************************************************)
(* Package escape: the classification table and Escape.                    *)
(***************************************************************************)
\* the three letters the table is written with
ChA == 65
ChB == 66
ChD == 68

Disallowed == 1
Unreserved == 2
Reserved == 4

\* a & b on bytes
RECURSIVE BitAnd(_, _)
BitAnd(a, b) ==
    IF a = 0 \/ b = 0 THEN 0
    ELSE 2 * BitAnd(a \div 2, b \div 2) + (IF a % 2 = 1 /\ b % 2 = 1 THEN 1 ELSE 0)

\* lower-case digits in the place of upperhex
upperhex_lower == <<48, 49, 50, 51, 52, 53, 54, 55, 56, 57, 97, 98, 99, 100, 101, 102>>

\* const upperhex = "0123456789ABCDEF"
upperhex == <<48, 49, 50, 51, 52, 53, 54, 55, 56, 57, 65, 66, 67, 68, 69, 70>>

\* const truth
truth ==
       <<ChA, ChA, ChA, ChA, ChA, ChA, ChA, ChA,
         ChA, ChA, ChA, ChA, ChA, ChA, ChA, ChA,
         ChA, ChA, ChA, ChA, ChA, ChA, ChA, ChA,
         ChA, ChA, ChA, ChA, ChA, ChA, ChA, ChA>>
    \o <<ChA, ChD, ChA, ChD, ChD, ChA, ChD, ChD,
         ChD, ChD, ChD, ChD, ChD, ChB, ChB, ChD,
         ChB, ChB, ChB, ChB, ChB, ChB, ChB, ChB,
         ChB, ChB, ChD, ChD, ChA, ChD, ChA, ChD>>
    \o <<ChD, ChB, ChB, ChB, ChB, ChB, ChB, ChB,
         ChB, ChB, ChB, ChB, ChB, ChB, ChB, ChB,
         ChB, ChB, ChB, ChB, ChB, ChB, ChB, ChB,
         ChB, ChB, ChB, ChD, ChA, ChD, ChA, ChB>>
    \o <<ChA, ChB, ChB, ChB, ChB, ChB, ChB, ChB,
         ChB, ChB, ChB, ChB, ChB, ChB, ChB, ChB,
         ChB, ChB, ChB, ChB, ChB, ChB, ChB, ChB,
         ChB, ChB, ChB, ChA, ChA, ChA, ChB, ChA>>
    \o <<ChA, ChA, ChA, ChA, ChA, ChA, ChA, ChA,
         ChA, ChA, ChA, ChA, ChA, ChA, ChA, ChA,
         ChA, ChA, ChA, ChA, ChA, ChA, ChA, ChA,
         ChA, ChA, ChA, ChA, ChA, ChA, ChA, ChA>>
    \o <<ChA, ChA, ChA, ChA, ChA, ChA, ChA, ChA,
         ChA, ChA, ChA, ChA, ChA, ChA, ChA, ChA,
         ChA, ChA, ChA, ChA, ChA, ChA, ChA, ChA,
         ChA, ChA, ChA, ChA, ChA, ChA, ChA, ChA>>
    \o <<ChA, ChA, ChA, ChA, ChA, ChA, ChA, ChA,
         ChA, ChA, ChA, ChA, ChA, ChA, ChA, ChA,
         ChA, ChA, ChA, ChA, ChA, ChA, ChA, ChA,
         ChA, ChA, ChA, ChA, ChA, ChA, ChA, ChA>>
    \o <<ChA, ChA, ChA, ChA, ChA, ChA, ChA, ChA,
         ChA, ChA, ChA, ChA, ChA, ChA, ChA, ChA,
         ChA, ChA, ChA, ChA, ChA, ChA, ChA, ChA,
         ChA, ChA, ChA, ChA, ChA, ChA, ChA, ChA>>

\* the look-up as it would be one entry further
truthAt_oneFurther(c) == truth[((c + 1) % 256) + 1]

\* truth[c]; entry c of the code's string is element c + 1 here
truthAt(c) == truth[c + 1]

\* truth[c]&mask != 0
Masked(c, mask) == BitAnd(truthAt(c), mask) # 0

\* the count of Escape's first loop, one too many
hexCount_oneMore(s, mask) ==
    Cardinality({i \in 1..Len(s) : Masked(s[i], mask)}) + 1

\* hexCount after Escape's first loop
hexCount(s, mask) == Cardinality({i \in 1..Len(s) : Masked(s[i], mask)})

\* Escape's second loop from byte i of s and byte j of t on
RECURSIVE EscapeLoop(_, _, _, _, _)
EscapeLoop(s, mask, i, j, t) ==
    IF ~(i < Len(s)) THEN t
    ELSE LET c == s[i + 1]
         IN IF Masked(c, mask)
            THEN EscapeLoop(s, mask, i + 1, j + 3,
                            [t EXCEPT ![j + 1] = PERCENT,
                                      ![j + 2] = upperhex[(c \div 16) + 1],
                                      ![j + 3] = upperhex[(c % 16) + 1]])
            ELSE EscapeLoop(s, mask, i + 1, j + 1, [t EXCEPT ![j + 1] = c])

\* func Escape(s string, mask byte) string
Escape(s, mask) ==
    IF hexCount(s, mask) = 0 THEN s
    ELSE LET required == Len(s) + 2 * hexCount(s, mask)
         IN EscapeLoop(s, mask, 0, 0, [k \in 1..required |-> 0])

(***************************************************************************)
(* Package execute.  A reflect.Value is a record with its Kind; interfaces *)
(* and pointers are left out, so dereference has nothing to do.  A map is  *)
(* a function from its keys (strings) to values.                           *)
(***************************************************************************)
Invalid == [kind |-> "Invalid"]
StringValue(s) == [kind |-> "String", s |-> s]
IntValue(n) == [kind |-> "Int", n |-> n]
SliceValue(es) == [kind |-> "Slice", elems |-> es]
MapValue(m) == [kind |-> "Map", m |-> m]
\* a struct: its fields in order, each with its name, its `uri` tag (<<>> when
\* it has none) and its value
StructValue(fs) == [kind |-> "Struct", fields |-> fs]
\* an interface or a pointer and what it holds, Invalid when it is nil
PtrValue(elem) == [kind |-> "Ptr", elem |-> elem]

\* fmt.Sprint of a string or of an int that is not negative
Sprint(value) == IF value.kind = "String" THEN value.s ELSE Itoa(value.n)

\* for v.Kind() == reflect.Interface || v.Kind() == reflect.Ptr { *v = v.Elem() }
RECURSIVE dereference(_)
dereference(v) == IF v.kind = "Ptr" THEN dereference(v.elem) ELSE v

\* the first field whose `uri` tag is the key
getByTag(st, key) ==
    LET hits == {i \in 1..Len(st.fields) : st.fields[i].tag = key}
    IN IF hits = {} THEN Invalid
       ELSE st.fields[CHOOSE i \in hits : \A j \in hits : i <= j].val

\* getByKey as it would be if the tag were looked for before the name
getByKey_tagFirst(data, key) ==
    dereference(
        CASE data.kind = "Map" ->
                IF key \in DOMAIN data.m THEN data.m[key] ELSE Invalid
          [] data.kind = "Struct" ->
                LET named == {i \in 1..Len(data.fields) : data.fields[i].name = key}
                IN IF getByTag(data, key) # Invalid THEN getByTag(data, key)
                   ELSE IF named # {} THEN data.fields[CHOOSE i \in named : TRUE].val
                   ELSE Invalid
          [] OTHER -> Invalid)

\* getByKey: MapIndex for a map (the keys are strings), FieldByName and then
\* getByTag for a struct, nothing for the other kinds; then dereference
getByKey(data, key) ==
    dereference(
        CASE data.kind = "Map" ->
                IF key \in DOMAIN data.m THEN data.m[key] ELSE Invalid
          [] data.kind = "Struct" ->
                LET named == {i \in 1..Len(data.fields) : data.fields[i].name = key}
                IN IF named # {} THEN data.fields[CHOOSE i \in named : TRUE].val
                   ELSE getByTag(data, key)
          [] OTHER -> Invalid)

\* findVariableValue's loop over the parts of an ID
RECURSIVE getByKeys(_, _)
getByKeys(value, id) ==
    IF id = <<>> THEN value ELSE getByKeys(getByKey(value, Head(id)), Tail(id))

findVariableValue(data, v) == getByKeys(data, v.ID)

\* the orders in which MapRange can go through the keys of a map
MapRange(m) ==
    {ks \in [1..Cardinality(DOMAIN m) -> DOMAIN m] :
        \A a, b \in 1..Cardinality(DOMAIN m) : a # b => ks[a] # ks[b]}

\* exprWriter{data: value, expr: &part}
NewExprWriter(data, expr) ==
    [buf |-> <<>>, data |-> data, expr |-> expr, i |-> 0, varsep |-> 0, mask |-> 0]

writeListSeparator(e) == [e EXCEPT !.buf = @ \o <<COMMA>>]

writeVariableSeparator(e) ==
    IF e.i > 0 THEN [e EXCEPT !.buf = @ \o <<e.varsep>>] ELSE e

formatValue(e, value, mod) ==
    LET unescaped == Sprint(value)
        n == XorBit(mod, ModPrefix)
    IN [e EXCEPT !.buf = @ \o Escape(IF HasBit(mod, ModPrefix) /\ n < Len(unescaped)
                                     THEN SubSeq(unescaped, 1, n) ELSE unescaped,
                                     e.mask)]

\* formatList's loop from element i on
RECURSIVE formatListFrom(_, _, _, _)
formatListFrom(e, elems, mod, i) ==
    IF ~(i < Len(elems)) THEN e
    ELSE formatListFrom(formatValue(writeListSeparator(e), elems[i + 1], mod),
                        elems, mod, i + 1)

formatList(e, value, mod) ==
    IF Len(value.elems) > 0
    THEN [formatListFrom(formatValue(e, value.elems[1], mod), value.elems, mod, 1)
            EXCEPT !.i = @ + 1]
    ELSE e

writeVariableValue(e, value, mod) == [formatValue(e, value, mod) EXCEPT !.i = @ + 1]

writeValueAsKey(e, value) == [formatValue(e, value, 0) EXCEPT !.buf = @ \o <<61>>]

\* writeVariableKey as it would be with the first part of the ID as the key
writeVariableKey_firstPart(e, v) == [e EXCEPT !.buf = @ \o v.ID[1] \o <<61>>]

writeVariableKey(e, v) == [e EXCEPT !.buf = @ \o v.ID[Len(v.ID)] \o <<61>>]

\* the loop "treat each child as a separate variable" of writeKvVariable
RECURSIVE kvExplodeSlice(_, _, _, _)
kvExplodeSlice(e, v, elems, i) ==
    IF ~(i < Len(elems)) THEN e
    ELSE kvExplodeSlice(
            writeVariableValue(writeVariableKey(writeVariableSeparator(e), v),
                               elems[i + 1], 0),
            v, elems, i + 1)

\* that loop of writeListVariable as it would be with no separator written
RECURSIVE listExplodeSlice_noSeparator(_, _, _)
listExplodeSlice_noSeparator(e, elems, i) ==
    IF ~(i < Len(elems)) THEN e
    ELSE listExplodeSlice_noSeparator(writeVariableValue(e, elems[i + 1], 0),
                                      elems, i + 1)

\* the same loop of writeListVariable
RECURSIVE listExplodeSlice(_, _, _)
listExplodeSlice(e, elems, i) ==
    IF ~(i < Len(elems)) THEN e
    ELSE listExplodeSlice(writeVariableValue(writeVariableSeparator(e), elems[i + 1], 0),
                          elems, i + 1)

\* the MapRange loop of a map that is not exploded, the keys taken in the
\* order ks, from key j on
RECURSIVE mapPairs(_, _, _, _)
mapPairs(e, m, ks, j) ==
    IF j > Len(ks) THEN e
    ELSE LET e1 == IF e.i > 0 THEN writeListSeparator(e) ELSE e
             e2 == writeVariableValue(e1, StringValue(ks[j]), 0)
             e3 == writeVariableValue(writeListSeparator(e2), m[ks[j]], 0)
         IN mapPairs(e3, m, ks, j + 1)

\* the MapRange loop of an exploded map
RECURSIVE mapExplode(_, _, _, _)
mapExplode(e, m, ks, j) ==
    IF j > Len(ks) THEN e
    ELSE LET e1 == writeValueAsKey(writeVariableSeparator(e), StringValue(ks[j]))
         IN mapExplode(writeVariableValue(e1, m[ks[j]], 0), m, ks, j + 1)

\* the default case of writeKvVariable as it would be if the '=' of an empty
\* value were cut under every operator
kvScalar_cutAlways(e, v, value) ==
    LET e1 == writeVariableKey(writeVariableSeparator(e), v)
        lenBefore == Len(e1.buf)
        e2 == writeVariableValue(e1, value, v.Mod)
    IN IF Len(e2.buf) = lenBefore
       THEN [e2 EXCEPT !.buf = SubSeq(@, 1, lenBefore - 1)]
       ELSE e2

\* the default case of writeKvVariable
kvScalar(e, v, value) ==
    LET e1 == writeVariableKey(writeVariableSeparator(e), v)
        lenBefore == Len(e1.buf)
        e2 == writeVariableValue(e1, value, v.Mod)
    IN IF e.expr.Op = 59 /\ Len(e2.buf) = lenBefore
       THEN [e2 EXCEPT !.buf = SubSeq(@, 1, lenBefore - 1)]
       ELSE e2

\* the return for an undefined value as it would be if a separator were
\* written first
returnUndefined_separator(e) == [e EXCEPT !.buf = @ \o <<e.varsep>>]

\* if !value.IsValid() { return }
returnUndefined(e) == e

\* writeKvVariable: the exprWriters it can leave, one for each order of a map
writeKvVariable(e, v) ==
    LET value == findVariableValue(e.data, v)
    IN CASE value.kind = "Invalid" -> {returnUndefined(e)}
         [] value.kind = "Slice" ->
              IF ~HasBit(v.Mod, ModExplode)
              THEN {formatList(writeVariableKey(writeVariableSeparator(e), v),
                               value, v.Mod)}
              ELSE {kvExplodeSlice(e, v, value.elems, 0)}
         [] value.kind = "Map" ->
              IF ~HasBit(v.Mod, ModExplode)
              THEN {mapPairs(writeVariableKey(e, v), value.m, ks, 1) :
                       ks \in MapRange(value.m)}
              ELSE {mapExplode(e, value.m, ks, 1) : ks \in MapRange(value.m)}
         [] OTHER -> {kvScalar(e, v, value)}

\* writeListVariable
writeListVariable(e, v) ==
    LET value == findVariableValue(e.data, v)
    IN CASE value.kind = "Invalid" -> {returnUndefined(e)}
         [] value.kind = "Slice" ->
              IF ~HasBit(v.Mod, ModExplode)
              THEN {formatList(e, value, v.Mod)}
              ELSE {listExplodeSlice(e, value.elems, 0)}
         [] value.kind = "Map" ->
              IF ~HasBit(v.Mod, ModExplode)
              THEN {mapPairs(e, value.m, ks, 1) : ks \in MapRange(value.m)}
              ELSE {mapExplode(e, value.m, ks, 1) : ks \in MapRange(value.m)}
         [] OTHER -> {writeVariableValue(writeVariableSeparator(e), value, v.Mod)}

\* the operators ';', '?', '&' of writeExpr's second switch
KvOps == {59, 63, 38}

\* writeExpr's first switch as it would be with one mask for every operator
varsepAndMask_oneMask(op) ==
    CASE op \in {43, 35} -> [varsep |-> COMMA, mask |-> Disallowed + Reserved]
      [] op = DOT -> [varsep |-> DOT, mask |-> Disallowed + Reserved]
      [] op = SLASH -> [varsep |-> SLASH, mask |-> Disallowed + Reserved]
      [] op = 59 -> [varsep |-> 59, mask |-> Disallowed + Reserved]
      [] op \in {63, 38} -> [varsep |-> 38, mask |-> Disallowed + Reserved]
      [] OTHER -> [varsep |-> COMMA, mask |-> Disallowed + Reserved]

\* writeExpr's first switch: e.varsep, e.mask
varsepAndMask(op) ==
    CASE op \in {43, 35} -> [varsep |-> COMMA, mask |-> Disallowed]
      [] op = DOT -> [varsep |-> DOT, mask |-> Disallowed + Reserved]
      [] op = SLASH -> [varsep |-> SLASH, mask |-> Disallowed + Reserved]
      [] op = 59 -> [varsep |-> 59, mask |-> Disallowed + Reserved]
      [] op \in {63, 38} -> [varsep |-> 38, mask |-> Disallowed + Reserved]
      [] OTHER -> [varsep |-> COMMA, mask |-> Disallowed + Reserved]

\* the sign written as it would be if '+' had its sign written too
writeSign_plusToo(e) ==
    IF e.expr.Op # 0 THEN [e EXCEPT !.buf = @ \o <<e.expr.Op>>] ELSE e

\* "almost all operators have their sign written"
writeSign(e) ==
    IF e.expr.Op # 0 /\ e.expr.Op # 43
    THEN [e EXCEPT !.buf = @ \o <<e.expr.Op>>]
    ELSE e

\* writeExpr up to its loops
writeExprBegin(e) ==
    writeSign([e EXCEPT !.varsep = varsepAndMask(e.expr.Op).varsep,
                        !.mask = varsepAndMask(e.expr.Op).mask])

\* the end of writeExpr as it would be if the buffer were never reset
writeExprEnd_noReset(e) == e

\* writeExpr after its loops: "some operators require at least one defined
\* variable"
writeExprEnd(e) ==
    IF e.expr.Op \notin KvOps /\ e.i = 0 /\ (e.expr.Op = 35 \/ e.expr.Op = DOT)
    THEN [e EXCEPT !.buf = <<>>]
    ELSE e

(***************************************************************************)
(* The templates of the model.                                             *)
(***************************************************************************)
Alphabet == {SLASH, PERCENT, LBRACE, RBRACE, DOT, COMMA, STAR, COLON, SPACE,
             LowerA, Digit0, Digit1}

ExprAlphabet == {RBRACE, DOT, COMMA, STAR, COLON, LowerA, Digit0}

\* "/", "a", "%a0", "{a}", "{/a.0*,0:1}"
ChunkSet == {<<SLASH>>, <<LowerA>>, <<PERCENT, LowerA, Digit0>>,
             <<LBRACE, LowerA, RBRACE>>,
             <<LBRACE, SLASH, LowerA, DOT, Digit0, STAR, COMMA, Digit0, COLON,
               Digit1, RBRACE>>}

ShortInputs == SeqsUpTo(Alphabet, MaxLen)

ExprInputs == {<<LBRACE>> \o b : b \in SeqsUpTo(ExprAlphabet, MaxBody)}

DigitInputs == {<<LBRACE, LowerA, COLON>> \o d \o t :
                   d \in SeqsUpTo({Digit0, Digit1}, MaxDigits),
                   t \in {<<>>, <<RBRACE>>}}

ChunkInputs == {Concat(cs) : cs \in SeqsUpTo(ChunkSet, MaxChunks)}

Inputs == ShortInputs \cup ExprInputs \cup DigitInputs \cup ChunkInputs

(***************************************************************************)
(* Values of the variables of a part of the pipeline that is not running.  *)
(*   orig  the Expr whose String() is being parsed again, or NoOrig        *)
(*   esc   one call of escape.Escape: its arguments and its result         *)
(*   exec  one call of execute.Execute                                     *)
(***************************************************************************)
NoOrig == [Op |-> 0 - 1, Vars |-> <<>>]
NoEscape == [pc |-> "none"]
NoExec == [pc |-> "none"]

(***************************************************************************)
(* The state machine.  Lex starts the goroutine run on a fresh lexer and   *)
(* an unbuffered channel; the consumer is Parse or collect.                *)
(*   lpc   "run": run is about to call lstate; "send": the goroutine is    *)
(*         blocked in l.items <- pending; "closed": run closed the channel *)
(*   ppc   "range": the consumer waits for the next item; "returned"       *)
(*   items the items the consumer has received, in order                   *)
(*   handled  the items Parse has passed to a state function, in order     *)
(***************************************************************************)
\* make(chan Item) has no buffer
ChanCap == 0

\* make(chan Item, size)
NewChan(size) == [cap |-> size, buf |-> <<>>]

\* no second call is running
NoOther == [id |-> 0]

\* one call of Parse or collect, Lex(input) being called with a channel of the
\* given size
InitCall(inputs, sizes) ==
    /\ input \in inputs
    /\ consumer \in {"Parse", "collect"}
    /\ l = [input |-> input, start |-> 0, pos |-> 0]
    /\ lstate = "lexPath"
    /\ lpc = "run"
    /\ pending = NoItem
    /\ closed = FALSE
    /\ p = NewParser
    /\ pstate = "pRaw"
    /\ ppc = "range"
    /\ result = NoResult
    /\ items = <<>>
    /\ handled = <<>>
    /\ orig = NoOrig
    /\ esc = NoEscape
    /\ exec = NoExec
    /\ \E size \in sizes : ch = NewChan(size)

Init == InitCall(Inputs, {ChanCap}) /\ other = NoOther

\* run as it would be if a send never made the goroutine wait
LexStep_runsAhead(r) ==
    /\ lpc = "run"
    /\ l' = r.l
    /\ lstate' = r.state
    /\ ch' = [ch EXCEPT !.buf = @ \o r.out]
    /\ UNCHANGED <<lpc, pending>>
    /\ UNCHANGED <<input, consumer, closed, p, pstate, ppc, result, items, handled>>
    /\ UNCHANGED <<orig, esc, exec, other>>

\* run calls the state function; a send blocks the goroutine until received
LexStep(r) ==
    /\ lpc = "run"
    /\ l' = r.l
    /\ lstate' = r.state
    /\ IF r.out = <<>>
       THEN UNCHANGED <<lpc, pending, ch>>
       ELSE IF Len(ch.buf) < ch.cap
       THEN ch' = [ch EXCEPT !.buf = Append(@, r.out[1])] /\ UNCHANGED <<lpc, pending>>
       ELSE lpc' = "send" /\ pending' = r.out[1] /\ UNCHANGED ch
    /\ UNCHANGED <<input, consumer, closed, p, pstate, ppc, result, items, handled>>
    /\ UNCHANGED <<orig, esc, exec, other>>

LexPath == lstate = "lexPath" /\ LexStep(lexPath(l))
LexRaw == lstate = "lexRaw" /\ LexStep(lexRaw(l))
LexPercent == lstate = "lexPercent" /\ LexStep(lexPercent(l))
LexBeginExpr == lstate = "lexBeginExpr" /\ LexStep(lexBeginExpr(l))
LexInExpr == lstate = "lexInExpr" /\ LexStep(lexInExpr(l))
LexLength == lstate = "lexLength" /\ LexStep(lexLength(l))

\* run: the state is nil, close(l.items)
LexClose ==
    /\ lpc = "run"
    /\ lstate = "nil"
    /\ lpc' = "closed"
    /\ closed' = TRUE
    /\ UNCHANGED <<input, consumer, l, lstate, pending, p, pstate, ppc, result, items,
                   handled, ch>>
    /\ UNCHANGED <<orig, esc, exec, other>>

\* the item a receive gets: the oldest of the buffer, or with no buffered
\* item the one of the sender that waits
Received == IF ch.buf # <<>> THEN Head(ch.buf) ELSE pending

\* the channel has an item to give
CanReceive == ch.buf # <<>> \/ lpc = "send"

\* the end of the range as it would be if close threw the buffered items away
Drained_atClose == lpc = "closed"

\* the channel is closed and has given everything
Drained == lpc = "closed" /\ ch.buf = <<>>

\* a receive: it takes the item and lets the sender that waits go on, the
\* sender's item going to the end of the buffer when the buffer had items
Receive ==
    /\ CanReceive
    /\ items' = Append(items, Received)
    /\ IF lpc = "send"
       THEN /\ lpc' = "run"
            /\ pending' = NoItem
            /\ ch' = [ch EXCEPT !.buf = IF @ = <<>> THEN @ ELSE Append(Tail(@), pending)]
       ELSE /\ ch' = [ch EXCEPT !.buf = Tail(@)]
            /\ UNCHANGED <<lpc, pending>>
    /\ UNCHANGED <<input, consumer, l, lstate, closed>>

\* IsLexError as it would be if Parse did not look for ItemError
IsLexError_never(it) == FALSE

\* Parse's test p.item.Typ == lexer.ItemError
IsLexError(it) == it.Typ = "ItemError"

\* Parse's loop, one iteration in state st: the item is no ItemError
ParseIter(st) ==
    /\ consumer = "Parse"
    /\ ppc = "range"
    /\ pstate = st
    /\ Receive
    /\ ~IsLexError(Received)
    /\ handled' = Append(handled, Received)
    /\ UNCHANGED <<orig, esc, exec, other>>
    /\ \E ninf \in IntOfNegInf :
          LET r == CallState(st, [p EXCEPT !.item = Received], ninf)
          IN /\ p' = r.p
             /\ pstate' = r.state
             /\ IF r.err # NilErr
                THEN ppc' = "returned" /\ result' = ReturnError(r.p, r.err)
                ELSE IF r.state = "nil"
                THEN ppc' = "returned" /\ result' = ReturnAst(r.p)
                ELSE UNCHANGED <<ppc, result>>

ParseRaw == ParseIter("pRaw")
ParseMaybeOp == ParseIter("pMaybeOp")
ParseExpr == ParseIter("pExpr")
ParseAfterVar == ParseIter("pAfterVar")
ParseLength == ParseIter("pLength")

\* Parse's loop ends without a state function being called: the item is an
\* ItemError, or the channel is closed
ParseEnd ==
    /\ consumer = "Parse"
    /\ ppc = "range"
    /\ IF Drained
       THEN /\ result' = ReturnAst(p)
            /\ UNCHANGED <<input, consumer, l, lstate, lpc, pending, closed, p, items,
                           ch>>
       ELSE /\ Receive
            /\ IsLexError(Received)
            /\ p' = [p EXCEPT !.item = Received]
            /\ result' = ReturnError(p', LexerError)
    /\ ppc' = "returned"
    /\ UNCHANGED <<pstate, handled>>
    /\ UNCHANGED <<orig, esc, exec, other>>

\* collect: item, ok := <-stream with ok true
CollectItem ==
    /\ consumer = "collect"
    /\ ppc = "range"
    /\ Receive
    /\ UNCHANGED <<p, pstate, ppc, result, handled>>
    /\ UNCHANGED <<orig, esc, exec, other>>

\* collect: ok is false, break
CollectDone ==
    /\ consumer = "collect"
    /\ ppc = "range"
    /\ Drained
    /\ ppc' = "returned"
    /\ UNCHANGED <<input, consumer, l, lstate, lpc, pending, closed, p, pstate,
                   result, items, handled, ch>>
    /\ UNCHANGED <<orig, esc, exec, other>>

Lexer == LexPath \/ LexRaw \/ LexPercent \/ LexBeginExpr \/ LexInExpr
         \/ LexLength \/ LexClose

Consumer == ParseRaw \/ ParseMaybeOp \/ ParseExpr \/ ParseAfterVar \/ ParseLength
            \/ ParseEnd \/ CollectItem \/ CollectDone

Next == Lexer \/ Consumer

Spec == Init /\ [][Next]_vars

\* the Go scheduler runs every goroutine that can run
FairSpec == Spec /\ WF_vars(Lexer) /\ WF_vars(Consumer)

MaxCap == 2

\* the same calls with items: make(chan Item, size), size from 0 to MaxCap
ChanInit == InitCall(Inputs, 0..MaxCap) /\ other = NoOther

ChanSpec == ChanInit /\ [][Next]_vars

(***************************************************************************)
(* Parsing again the text of an expression of a returned Ast: a second     *)
(* call Parse(e.String()), with a lexer goroutine and a parser of its own. *)
(***************************************************************************)
ParseAgain ==
    /\ consumer = "Parse"
    /\ ppc = "returned"
    /\ ~result.astNil
    /\ orig = NoOrig
    /\ \E i \in 1..Len(result.ast.Parts) :
          /\ result.ast.Parts[i].kind = "Expr"
          /\ orig' = result.ast.Parts[i].expr
    /\ input' = ExprString(orig')
    /\ l' = [input |-> input', start |-> 0, pos |-> 0]
    /\ lstate' = "lexPath"
    /\ lpc' = "run"
    /\ pending' = NoItem
    /\ closed' = FALSE
    /\ p' = NewParser
    /\ pstate' = "pRaw"
    /\ ppc' = "range"
    /\ result' = NoResult
    /\ items' = <<>>
    /\ handled' = <<>>
    /\ ch' = [ch EXCEPT !.buf = <<>>]
    /\ UNCHANGED <<consumer, esc, exec, other>>

RoundTripNext == Next \/ ParseAgain

RoundTripSpec == Init /\ [][RoundTripNext]_vars

(***************************************************************************)
(* One call of escape.Escape on its own.                                   *)
(*   esc.pc  "call": before the first loop; "counted": after it;           *)
(*           "returned"                                                    *)
(*   esc.same  the call returned s, not string(t)                          *)
(***************************************************************************)
parseVars == <<input, consumer, l, lstate, lpc, pending, closed,
               p, pstate, ppc, result, items, handled, orig, ch, other>>

\* no template is being lexed or parsed
NoParseCall ==
    /\ input = <<>>
    /\ consumer = "none"
    /\ l = [input |-> <<>>, start |-> 0, pos |-> 0]
    /\ lstate = "nil"
    /\ lpc = "none"
    /\ pending = NoItem
    /\ closed = FALSE
    /\ p = NewParser
    /\ pstate = "nil"
    /\ ppc = "none"
    /\ result = NoResult
    /\ items = <<>>
    /\ handled = <<>>
    /\ orig = NoOrig
    /\ ch = NewChan(ChanCap)

\* NUL, ' ', '%', '/', 'a', '~' and 0xFF
EscBytes == {0, SPACE, PERCENT, SLASH, LowerA, 126, 255}

\* the bitwise ORs of Disallowed, Unreserved and Reserved
Masks == {d + u + r : d \in {0, Disallowed}, u \in {0, Unreserved},
                      r \in {0, Reserved}}

EscapeInit ==
    /\ NoParseCall
    /\ other = NoOther
    /\ exec = NoExec
    /\ \E s \in SeqsUpTo(EscBytes, MaxEscLen), mask \in Masks :
          esc = [pc |-> "call", s |-> s, mask |-> mask, hexCount |-> 0,
                 out |-> <<>>, same |-> FALSE]

\* the first loop
EscapeCount ==
    /\ esc.pc = "call"
    /\ esc' = [esc EXCEPT !.pc = "counted",
                          !.hexCount = hexCount(esc.s, esc.mask)]
    /\ UNCHANGED <<parseVars, exec>>

\* if hexCount == 0 { return s }
EscapeSame ==
    /\ esc.pc = "counted"
    /\ esc.hexCount = 0
    /\ esc' = [esc EXCEPT !.pc = "returned",
                          !.out = Escape(esc.s, esc.mask),
                          !.same = TRUE]
    /\ UNCHANGED <<parseVars, exec>>

\* the second loop and return string(t)
EscapeBuild ==
    /\ esc.pc = "counted"
    /\ esc.hexCount # 0
    /\ esc' = [esc EXCEPT !.pc = "returned",
                          !.out = Escape(esc.s, esc.mask),
                          !.same = FALSE]
    /\ UNCHANGED <<parseVars, exec>>

EscapeNext == EscapeCount \/ EscapeSame \/ EscapeBuild

EscapeSpec == EscapeInit /\ [][EscapeNext]_vars

(***************************************************************************)
(* One call of execute.Execute(ast, w, data).                              *)
(*   exec.pc  "part": at the head of the loop over ast.Parts, part k next; *)
(*            "vars": in writeExpr, variable v next; "write": writeExpr    *)
(*            has returned; "returned"                                     *)
(*   exec.e   the exprWriter of the expression                             *)
(*   exec.w   what the writer w has accepted, write by write               *)
(*   exec.failAt  the number of the write that w rejects, 0 for none       *)
(***************************************************************************)
\* the names x, y, k and the strings "a/", "\u00e9 " (in UTF-8) and "/"
NameX == <<120>>
NameY == <<121>>
NameK == <<107>>
StrA == <<LowerA, SLASH>>
StrE == <<195, 169, SPACE>>
StrSlash == <<SLASH>>

MapK == NameK :> StringValue(StrA)
MapK2 == (NameK :> StringValue(StrA)) @@ (StrSlash :> StringValue(<<>>))

ValuesX == {Invalid, StringValue(<<>>), StringValue(StrA), StringValue(StrE),
            IntValue(10), SliceValue(<<>>),
            SliceValue(<<StringValue(StrA), StringValue(<<>>)>>),
            MapValue(<<>>), MapValue(MapK), MapValue(MapK2)}

ValuesY == {Invalid, StringValue(StrA), MapValue(MapK)}

\* a map[string]interface{} with x and y, a key left out when undefined
ContextOf(vx, vy) ==
    MapValue([n \in {m \in {NameX, NameY} :
                        (m = NameX /\ vx # Invalid) \/ (m = NameY /\ vy # Invalid)}
              |-> IF n = NameX THEN vx ELSE vy])

\* the contexts, a nil data among them
Contexts == {ContextOf(vx, vy) : vx \in ValuesX, vy \in ValuesY} \cup {Invalid}

\* x, x:1, x:0, x*, y, y.k
VarRefs == {[ID |-> <<NameX>>, Mod |-> ModNone],
            [ID |-> <<NameX>>, Mod |-> ModPrefix + 1],
            [ID |-> <<NameX>>, Mod |-> ModPrefix],
            [ID |-> <<NameX>>, Mod |-> ModExplode],
            [ID |-> <<NameY>>, Mod |-> ModNone],
            [ID |-> <<NameY, NameK>>, Mod |-> ModNone]}

ExecExprs == {[Op |-> op, Vars |-> vs] :
                 op \in {0} \cup OpChars,
                 vs \in SeqsUpTo(VarRefs, MaxVars) \ {<<>>}}

\* "{...}" and "a/{...}"
ExecParts == {<<ExprPart(x)>> : x \in ExecExprs}
             \cup {<<StringPart(<<LowerA>>), NilPart, ExprPart(x)>> : x \in ExecExprs}

\* the Ast Parse returns with these parts
AstOf(parts) ==
    [Vars |-> UNION {{parts[i].expr.Vars[j].ID[1] : j \in 1..Len(parts[i].expr.Vars)} :
                       i \in 1..Len(parts)},
     Parts |-> parts]

NoWriter == NewExprWriter(Invalid, ZeroExpr)

\* Execute(ast, w, data) is called, w a writer that rejects its write number
\* failAt (none when 0)
ExecCall(parts, data, failAt) ==
    [pc |-> "part", ast |-> AstOf(parts), data |-> data, k |-> 1,
     v |-> 0, e |-> NoWriter, w |-> <<>>, failAt |-> failAt,
     err |-> "nil",
     \* what the caller holds: the number of the call, the Ast and the data as
     \* they were given to the first call, and what the first call wrote and
     \* returned
     calls |-> 1, ast0 |-> AstOf(parts), data0 |-> data,
     out0 |-> <<>>, err0 |-> "nil"]

ExecInit ==
    /\ NoParseCall
    /\ other = NoOther
    /\ esc = NoEscape
    /\ \E parts \in ExecParts, data \in Contexts, failAt \in 0..MaxFail :
          exec = ExecCall(parts, data, failAt)

\* the write as it would be if Execute kept the error and went on
ExecWrite_goesOn(b) ==
    IF exec.failAt = Len(exec.w) + 1
    THEN exec' = [exec EXCEPT !.pc = "part", !.err = "write", !.k = @ + 1,
                              !.failAt = 0]
    ELSE exec' = [exec EXCEPT !.pc = "part", !.w = Append(@, b), !.k = @ + 1]

\* if _, err := w.Write(b); err != nil { return err }
ExecWrite(b) ==
    IF exec.failAt = Len(exec.w) + 1
    THEN exec' = [exec EXCEPT !.pc = "returned", !.err = "write"]
    ELSE exec' = [exec EXCEPT !.pc = "part", !.w = Append(@, b), !.k = @ + 1]

ExecPart(kind) ==
    /\ exec.pc = "part"
    /\ exec.k <= Len(exec.ast.Parts)
    /\ exec.ast.Parts[exec.k].kind = kind
    /\ UNCHANGED <<parseVars, esc>>

\* case string
ExecString == ExecPart("string") /\ ExecWrite(exec.ast.Parts[exec.k].val)

\* case nil
ExecNil == ExecPart("nil") /\ ExecWrite(<<SLASH>>)

\* case parser.Expr: writeExpr up to its loops
ExecExpr ==
    /\ ExecPart("Expr")
    /\ exec' = [exec EXCEPT
                  !.pc = "vars",
                  !.v = 1,
                  !.e = writeExprBegin(
                           NewExprWriter(exec.data, exec.ast.Parts[exec.k].expr))]

InVars ==
    /\ exec.pc = "vars"
    /\ exec.v <= Len(exec.e.expr.Vars)
    /\ UNCHANGED <<parseVars, esc>>

\* one pass of the loop of case ';', '?', '&'
ExecKvVariable ==
    /\ InVars
    /\ exec.e.expr.Op \in KvOps
    /\ \E e2 \in writeKvVariable(exec.e, exec.e.expr.Vars[exec.v]) :
          exec' = [exec EXCEPT !.e = e2, !.v = @ + 1]

\* one pass of the loop of the default case
ExecListVariable ==
    /\ InVars
    /\ exec.e.expr.Op \notin KvOps
    /\ \E e2 \in writeListVariable(exec.e, exec.e.expr.Vars[exec.v]) :
          exec' = [exec EXCEPT !.e = e2, !.v = @ + 1]

\* the end of writeExpr as it would be if the writer cut the variables it has
\* written off the expression of the Ast
ExecExprEnd_consumes ==
    /\ exec.pc = "vars"
    /\ exec.v > Len(exec.e.expr.Vars)
    /\ exec' = [exec EXCEPT !.pc = "write", !.e = writeExprEnd(exec.e),
                            !.ast.Parts[exec.k].expr.Vars = <<>>]
    /\ UNCHANGED <<parseVars, esc>>

\* the loop is over; writeExpr returns
ExecExprEnd ==
    /\ exec.pc = "vars"
    /\ exec.v > Len(exec.e.expr.Vars)
    /\ exec' = [exec EXCEPT !.pc = "write", !.e = writeExprEnd(exec.e)]
    /\ UNCHANGED <<parseVars, esc>>

\* w.Write(ew.buf.Bytes())
ExecExprWrite ==
    /\ exec.pc = "write"
    /\ ExecWrite(exec.e.buf)
    /\ UNCHANGED <<parseVars, esc>>

\* return nil
ExecReturn ==
    /\ exec.pc = "part"
    /\ exec.k > Len(exec.ast.Parts)
    /\ exec' = [exec EXCEPT !.pc = "returned"]
    /\ UNCHANGED <<parseVars, esc>>

ExecNext == ExecString \/ ExecNil \/ ExecExpr \/ ExecKvVariable \/ ExecListVariable
            \/ ExecExprEnd \/ ExecExprWrite \/ ExecReturn

ExecSpec == ExecInit /\ [][ExecNext]_vars

(***************************************************************************)
(* Two calls at the same time. The variables hold the state of the call    *)
(* whose goroutines run; other holds the state of the call that waits for  *)
(* the processor, and its number. Two Parse calls have nothing in common;  *)
(* two Execute calls have the Ast in common.                               *)
(***************************************************************************)
\* what a call has of its own
Own ==
    [input |-> input, consumer |-> consumer, l |-> l, lstate |-> lstate,
     lpc |-> lpc, pending |-> pending, closed |-> closed, p |-> p,
     pstate |-> pstate, ppc |-> ppc, result |-> result, items |-> items,
     handled |-> handled, ch |-> ch, exec |-> exec]

\* Parse(text) or collect(Lex(text)) is called
ParseCall(text, c) ==
    [input |-> text, consumer |-> c, l |-> [input |-> text, start |-> 0, pos |-> 0],
     lstate |-> "lexPath", lpc |-> "run", pending |-> NoItem, closed |-> FALSE,
     p |-> NewParser, pstate |-> "pRaw", ppc |-> "range", result |-> NoResult,
     items |-> <<>>, handled |-> <<>>, ch |-> NewChan(ChanCap), exec |-> NoExec]

\* a call of Execute, which lexes and parses nothing
ExecuteCall(x) ==
    [input |-> <<>>, consumer |-> "none", l |-> [input |-> <<>>, start |-> 0, pos |-> 0],
     lstate |-> "nil", lpc |-> "none", pending |-> NoItem, closed |-> FALSE,
     p |-> NewParser, pstate |-> "nil", ppc |-> "none", result |-> NoResult,
     items |-> <<>>, handled |-> <<>>, ch |-> NewChan(ChanCap), exec |-> x]

\* "", "/a", "%a0", " ", "{a}", "{a:1}", "{a", "{+a,a}"
ConcInputs == {<<>>, <<SLASH, LowerA>>, <<PERCENT, LowerA, Digit0>>, <<SPACE>>,
               <<LBRACE, LowerA, RBRACE>>,
               <<LBRACE, LowerA, COLON, Digit1, RBRACE>>,
               <<LBRACE, LowerA>>,
               <<LBRACE, 43, LowerA, COMMA, LowerA, RBRACE>>}

\* "{x}", "{?x,y}", "a/{x*}", "a/{;y}"
ConcParts == {<<ExprPart([Op |-> 0, Vars |-> <<[ID |-> <<NameX>>, Mod |-> ModNone]>>])>>,
              <<ExprPart([Op |-> 63, Vars |-> <<[ID |-> <<NameX>>, Mod |-> ModNone],
                                               [ID |-> <<NameY>>, Mod |-> ModNone]>>])>>,
              <<StringPart(<<LowerA>>), NilPart,
                ExprPart([Op |-> 0, Vars |-> <<[ID |-> <<NameX>>, Mod |-> ModExplode]>>])>>,
              <<StringPart(<<LowerA>>), NilPart,
                ExprPart([Op |-> 59, Vars |-> <<[ID |-> <<NameY>>, Mod |-> ModNone]>>])>>}

\* nil, {"x": "a/"}, {"x": {"k": "a/", "/": ""}, "y": "a/"}
ConcContexts == {Invalid, ContextOf(StringValue(StrA), Invalid),
                 ContextOf(MapValue(MapK2), StringValue(StrA))}

\* the call that gets the processor goes on with the state it had
Resumed_sharedParser == [other.own EXCEPT !.p = p]

\* the call that gets the processor goes on with its own state: the parser
\* is a variable of Parse, the lexer and the channel are made by Lex, the
\* exprWriter and the buffer by Execute
Resumed == other.own

\* the processor goes from one call to the other
Switch ==
    /\ other.id # 0
    /\ other' = [id |-> 3 - other.id, own |-> Own]
    /\ input' = Resumed.input
    /\ consumer' = Resumed.consumer
    /\ l' = Resumed.l
    /\ lstate' = Resumed.lstate
    /\ lpc' = Resumed.lpc
    /\ pending' = Resumed.pending
    /\ closed' = Resumed.closed
    /\ p' = Resumed.p
    /\ pstate' = Resumed.pstate
    /\ ppc' = Resumed.ppc
    /\ result' = Resumed.result
    /\ items' = Resumed.items
    /\ handled' = Resumed.handled
    /\ ch' = Resumed.ch
    \* the Ast is the one both calls of Execute were given
    /\ exec' = IF exec.pc = "none" THEN Resumed.exec
               ELSE [Resumed.exec EXCEPT !.ast = exec.ast]
    /\ UNCHANGED <<orig, esc>>

\* two calls of Parse or collect, or two calls of Execute on one Ast
ConcInit ==
    /\ orig = NoOrig
    /\ esc = NoEscape
    /\ \/ /\ InitCall(ConcInputs, {ChanCap})
          /\ \E text \in ConcInputs, c \in {"Parse", "collect"} :
                other = [id |-> 2, own |-> ParseCall(text, c)]
       \/ /\ NoParseCall
          /\ \E parts \in ConcParts, d1 \in ConcContexts, d2 \in ConcContexts,
                f1 \in 0..1, f2 \in 0..1 :
                /\ exec = ExecCall(parts, d1, f1)
                /\ other = [id |-> 2, own |-> ExecuteCall(ExecCall(parts, d2, f2))]

ConcNext == Next \/ ExecNext \/ Switch

ConcSpec == ConcInit /\ [][ConcNext]_vars

\* the hex digits in both cases, and 'g', '/' and '%'
PercentBytes == (Digit0..Digit9) \cup (97..102) \cup (65..70) \cup {103, SLASH, PERCENT}

\* "%" and up to two bytes, alone or after "a"; and templates with expressions
PercentInputs == {pre \o <<PERCENT>> \o t :
                     pre \in {<<>>, <<LowerA>>}, t \in SeqsUpTo(PercentBytes, 2)}
                 \cup ConcInputs

PercentInit == InitCall(PercentInputs, {ChanCap}) /\ other = NoOther

PercentSpec == PercentInit /\ [][Next]_vars

\* longest tail after the modifier in ModifierInputs
MaxTail == 3

\* "{a" with a modifier ("*", ":1", ":10") and up to MaxTail bytes after it;
\* and templates with literals, '%' and other expressions
ModifierInputs == {<<LBRACE, LowerA>> \o m \o t :
                      m \in {<<STAR>>, <<COLON, Digit1>>, <<COLON, Digit1, Digit0>>},
                      t \in SeqsUpTo({DOT, COMMA, RBRACE, STAR, LowerA}, MaxTail)}
                  \cup ConcInputs

ModifierInit == InitCall(ModifierInputs, {ChanCap}) /\ other = NoOther

ModifierSpec == ModifierInit /\ [][Next]_vars

(***************************************************************************)
(* Execute on data with structs, tags, pointers and nil: the templates     *)
(* name x.k, x.t, x.k.k and y.                                             *)
(***************************************************************************)
NameT == <<116>>
NameU == <<117>>
Str1 == <<Digit1>>
Str0 == <<Digit0>>

Field(name, tag, val) == [name |-> name, tag |-> tag, val |-> val]

\* what "x" can hold
LookupValuesX ==
    {Invalid,
     \* a string, and a nil pointer
     StringValue(StrA), PtrValue(Invalid),
     \* map[string]string{"k": "a/"}
     MapValue(MapK),
     \* struct{k string}, and a pointer to it
     StructValue(<<Field(NameK, <<>>, StringValue(StrA))>>),
     PtrValue(StructValue(<<Field(NameK, <<>>, StringValue(StrA))>>)),
     \* struct{u string `uri:"k"`}
     StructValue(<<Field(NameU, NameK, StringValue(StrA))>>),
     \* struct{t string `uri:"k"`; k string `uri:"t"`}
     StructValue(<<Field(NameT, NameK, StringValue(Str0)),
                   Field(NameK, NameT, StringValue(Str1))>>),
     \* struct{t string `uri:"k"`; u string `uri:"k"`}
     StructValue(<<Field(NameT, NameK, StringValue(Str0)),
                   Field(NameU, NameK, StringValue(Str1))>>),
     \* struct{k interface{}} with k nil, and with k a *string
     StructValue(<<Field(NameK, <<>>, PtrValue(Invalid))>>),
     StructValue(<<Field(NameK, <<>>, PtrValue(StringValue(StrA)))>>),
     \* struct{k map[string]string}
     StructValue(<<Field(NameK, <<>>, MapValue(MapK))>>)}

\* the data: nil, a map with x, a struct with a field tagged x, a pointer to
\* that struct
LookupContexts ==
    {Invalid}
    \cup {ContextOf(vx, Invalid) : vx \in LookupValuesX}
    \cup {StructValue(<<Field(NameU, NameX, vx)>>) : vx \in LookupValuesX}
    \cup {PtrValue(StructValue(<<Field(NameU, NameX, StringValue(StrA))>>))}

LookupRefs == {[ID |-> <<NameX, NameK>>, Mod |-> ModNone],
               [ID |-> <<NameX, NameT>>, Mod |-> ModNone],
               [ID |-> <<NameX, NameK, NameK>>, Mod |-> ModNone],
               [ID |-> <<NameY>>, Mod |-> ModNone]}

LookupExprs == {[Op |-> op, Vars |-> vs] :
                   op \in {0, 63}, vs \in SeqsUpTo(LookupRefs, MaxVars) \ {<<>>}}

LookupParts == {<<ExprPart(x)>> : x \in LookupExprs}
               \cup {<<StringPart(<<LowerA>>), NilPart, ExprPart(x)>> :
                        x \in {y \in LookupExprs : Len(y.Vars) = 1}}

LookupInit ==
    /\ NoParseCall
    /\ other = NoOther
    /\ esc = NoEscape
    /\ \E parts \in LookupParts, data \in LookupContexts :
          exec = ExecCall(parts, data, 0)

LookupSpec == LookupInit /\ [][ExecNext]_vars

MaxCalls == 3

\* Execute(ast, &buf, tt.data) once more: the same Ast and data, a new writer
\* of the same kind
ExecAgain ==
    /\ exec.pc = "returned"
    /\ exec.calls < MaxCalls
    /\ exec' = [exec EXCEPT
                  !.pc = "part", !.k = 1, !.v = 0, !.e = NoWriter, !.w = <<>>,
                  !.err = "nil", !.calls = @ + 1,
                  !.out0 = IF exec.calls = 1 THEN exec.w ELSE @,
                  !.err0 = IF exec.calls = 1 THEN exec.err ELSE @]
    /\ UNCHANGED <<parseVars, esc>>

ExecAgainNext == ExecNext \/ ExecAgain

ExecAgainSpec == ExecInit /\ [][ExecAgainNext]_vars

(***************************************************************************)
(* Properties.                                                             *)
(***************************************************************************)
Last(sq) == sq[Len(sq)]

Parsing == consumer = "Parse"
Returned == Parsing /\ ppc = "returned"
ReturnedAst == Returned /\ ~result.astNil
ReturnedErr(err) == Returned /\ ~result.errNil /\ result.Err = err

\* no received item follows a terminal one; a terminal item waiting to be
\* received is the last thing the lexer does before closing
NoItemAfterTerminal ==
    /\ \A i \in 1..Len(items) : Terminal(items[i]) => i = Len(items)
    /\ (Len(items) > 0 /\ Terminal(Last(items))) =>
          (pending = NoItem /\ lstate = "nil")
    /\ (pending # NoItem /\ Terminal(pending)) => lstate = "nil"

ClosedAfterTerminal ==
    closed => (/\ Len(items) > 0
               /\ Terminal(Last(items))
               /\ Cardinality({i \in 1..Len(items) : Terminal(items[i])}) = 1)

\* C1: whatever the input, the items received from Lex never continue after
\* an ItemEOF or ItemError, the channel is closed only after exactly one such
\* item was received as the last one, and a consumer that keeps receiving
\* (collect) does get to the closed channel.
C1_StreamEndsWithOneTerminal ==
    /\ [](NoItemAfterTerminal /\ ClosedAfterTerminal)
    /\ ((consumer = "collect") ~> (closed /\ ppc = "returned"))

C1_Witness ==
    /\ consumer = "collect"
    /\ closed
    /\ Len(items) >= 3
    /\ Last(items).Typ = "ItemError"

\* C2: Parse returns an Ast and no error, or no Ast and an error; the
\* error is for the last item Parse received, and after Parse has returned
\* no item is received and the result does not change.
C2_AstOrError ==
    /\ [](Returned =>
            /\ result.astNil # result.errNil
            /\ ~result.errNil =>
                  (/\ Len(items) > 0
                   /\ result.Item.Typ = Last(items).Typ
                   /\ result.Item.Val = Last(items).Val))
    /\ [][Returned => (items' = items /\ result' = result /\ handled' = handled)]_vars

C2_Witness ==
    /\ ReturnedErr(ExpectedVarError)
    /\ result.astNil
    /\ p.ast.Vars # {}

\* C3: when the item Parse receives is an ItemError, Parse returns at once an
\* Error whose Err is a LexerError with that item (its message) and whose Pos
\* is the item's position; no ItemError is ever passed to a state function,
\* and every item before it was accepted by one.
C3_LexerErrorWrapped ==
    /\ \A i \in 1..Len(handled) : handled[i].Typ # "ItemError"
    /\ (Parsing /\ Len(items) > 0 /\ Last(items).Typ = "ItemError") =>
          /\ ReturnedErr(LexerError)
          /\ result.astNil
          /\ result.Item = Last(items)
          /\ result.Pos = Last(items).Pos
          /\ handled = SubSeq(items, 1, Len(items) - 1)

C3_Witness ==
    /\ ReturnedErr(LexerError)
    /\ Len(handled) >= 2
    /\ result.Item.Msg = ErrorExpectedLength

\* the number of maximal runs of '/' outside expressions in s, from offset i
RECURSIVE SepRuns(_, _, _, _)
SepRuns(s, i, inExpr, afterSep) ==
    IF i >= Len(s) THEN 0
    ELSE LET c == s[i + 1]
         IN CASE inExpr -> SepRuns(s, i + 1, c # RBRACE, FALSE)
              [] ~inExpr /\ c = LBRACE -> SepRuns(s, i + 1, TRUE, FALSE)
              [] ~inExpr /\ c = SLASH ->
                    (IF afterSep THEN 0 ELSE 1) + SepRuns(s, i + 1, FALSE, TRUE)
              [] OTHER -> SepRuns(s, i + 1, FALSE, FALSE)

NilParts(parts) == {i \in 1..Len(parts) : parts[i] = NilPart}

\* C4: in a returned Ast no two neighbouring parts are both PathSeparator,
\* and the Ast has one PathSeparator for each maximal run of '/' that the
\* template has outside its expressions (a run at the start included).
C4_SeparatorsCollapse ==
    ReturnedAst =>
       /\ \A i \in 1..(Len(result.ast.Parts) - 1) :
             ~(result.ast.Parts[i] = NilPart /\ result.ast.Parts[i + 1] = NilPart)
       /\ Cardinality(NilParts(result.ast.Parts)) = SepRuns(input, 0, FALSE, FALSE)

C4_Witness ==
    /\ ReturnedAst
    /\ Len(input) >= 3
    /\ input[1] = SLASH /\ input[2] = SLASH
    /\ result.ast.Parts[1] = NilPart
    /\ Cardinality(NilParts(result.ast.Parts)) = 2

\* the first path segments of the variables of the expressions of parts
FirstSegments(parts) ==
    UNION {{parts[i].expr.Vars[j].ID[1] : j \in 1..Len(parts[i].expr.Vars)} :
              i \in {i \in 1..Len(parts) : parts[i].kind = "Expr"}}

\* C5: in a returned Ast, Vars is the set of the first path segments of the
\* variables in Parts: nothing less, and no later segment unless it is also
\* some variable's first segment.
C5_VarsAreFirstSegments ==
    ReturnedAst => result.ast.Vars = FirstSegments(result.ast.Parts)

C5_Witness ==
    /\ ReturnedAst
    /\ \E i \in 1..Len(result.ast.Parts) :
          /\ result.ast.Parts[i].kind = "Expr"
          /\ \E j \in 1..Len(result.ast.Parts[i].expr.Vars) :
                LET id == result.ast.Parts[i].expr.Vars[j].ID
                IN Len(id) >= 2 /\ id[2] \notin result.ast.Vars

(***************************************************************************)
(* Properties of the items Parse has received.  k is the number of items   *)
(* received; items[k] is the one Parse has just dealt with.                *)
(***************************************************************************)
IsModifier(it) == it.Typ \in {"ItemPrefix", "ItemExplode"}

\* items[j] and items[k] belong to the same variable of the same expression
SameVariable(j, k) ==
    \A m \in j..k : items[m].Typ \notin {"ItemComma", "ItemLacc", "ItemRacc"}

\* the item just received is a ':' or '*' and an earlier ':' or '*' was
\* received for the same variable
SecondModifier ==
    /\ Parsing
    /\ Len(items) > 0
    /\ IsModifier(Last(items))
    /\ \E j \in 1..(Len(items) - 1) :
          IsModifier(items[j]) /\ SameVariable(j, Len(items))

\* the byte of the template at offset pos, 0 outside it
ByteAt(pos) == IF pos >= 0 /\ pos < Len(input) THEN input[pos + 1] ELSE 0

ModifierByte(it) == IF it.Typ = "ItemPrefix" THEN COLON ELSE STAR

OneModifier(m) ==
    \/ m = ModNone
    \/ m = ModExplode
    \/ m >= ModPrefix /\ m <= ModPrefix + 9999

AstVars(parts) ==
    UNION {{parts[i].expr.Vars[j] : j \in 1..Len(parts[i].expr.Vars)} :
              i \in {i \in 1..Len(parts) : parts[i].kind = "Expr"}}

\* C6: when a ':' or '*' arrives for a variable that already has a modifier
\* (Prefix(0) included), Parse fails with DoubleModError at the offset of
\* that second ':' or '*'; every variable of a returned Ast has no modifier,
\* Explode, or one Prefix(n) with n <= 9999.
C6_SecondModifierRejected ==
    /\ SecondModifier =>
          /\ ReturnedErr(DoubleModError)
          /\ result.Pos = Last(items).Pos
          /\ ByteAt(result.Pos) = ModifierByte(Last(items))
    /\ ReturnedAst => \A v \in AstVars(result.ast.Parts) : OneModifier(v.Mod)

\* the item just received is a ',', '.' or '}' and the one before it is
\* '{', an operator, a ',' or a '.'
VariableMissing ==
    /\ Parsing
    /\ Len(items) > 1
    /\ Last(items).Typ \in {"ItemComma", "ItemDot", "ItemRacc"}
    /\ items[Len(items) - 1].Typ \in {"ItemLacc", "ItemOp", "ItemComma", "ItemDot"}

SeparatorByte(it) ==
    CASE it.Typ = "ItemComma" -> COMMA
      [] it.Typ = "ItemDot" -> DOT
      [] OTHER -> RBRACE

\* C7: when a ',', '.' or '}' arrives where a variable name is required,
\* Parse fails with ExpectedVarError at the offset of that token.
C7_ExpectedVariable ==
    VariableMissing =>
       /\ ReturnedErr(ExpectedVarError)
       /\ result.Pos = Last(items).Pos
       /\ ByteAt(result.Pos) = SeparatorByte(Last(items))

\* "{a.,": a ',' right after a '.'
C7_Witness ==
    /\ VariableMissing
    /\ ReturnedErr(ExpectedVarError)
    /\ Last(items).Typ = "ItemComma"
    /\ items[Len(items) - 1].Typ = "ItemDot"

\* the item just received is a variable name and the one before it ends a
\* variable: a name, a '*' or a prefix length
NameAfterVariable ==
    /\ Parsing
    /\ Len(items) > 1
    /\ Last(items).Typ = "ItemVar"
    /\ items[Len(items) - 1].Typ \in {"ItemVar", "ItemExplode", "ItemLength"}

\* the name follows a prefix length and starts with a digit
DigitAfterLength ==
    /\ NameAfterVariable
    /\ items[Len(items) - 1].Typ = "ItemLength"
    /\ isDigit(Last(items).Val[1])

\* C8: a variable name that directly follows a variable or its modifier makes
\* Parse fail: with LengthOver9999Error when the modifier is Prefix(n) and the
\* name starts with a digit, otherwise with AfterVarError at the offset of
\* the name.
C8_NameAfterVariable ==
    NameAfterVariable =>
       IF DigitAfterLength
       THEN ReturnedErr(LengthOver9999Error)
       ELSE /\ ReturnedErr(AfterVarError)
            /\ result.Pos = Last(items).Pos
            /\ ByteAt(result.Pos) = Last(items).Val[1]

\* "{a:0a": a name that starts with a letter after Prefix(0)
C8_Witness ==
    /\ NameAfterVariable
    /\ ~DigitAfterLength
    /\ items[Len(items) - 1].Typ = "ItemLength"
    /\ ReturnedErr(AfterVarError)

\* the digits of the template that start at offset i
RECURSIVE DigitRun(_, _)
DigitRun(s, i) ==
    IF i < Len(s) /\ isDigit(s[i + 1]) THEN 1 + DigitRun(s, i + 1) ELSE 0

\* Parse has just received the fifth digit of a run of digits after a ':'
FiveDigits ==
    /\ Parsing
    /\ Len(items) > 2
    /\ Last(items).Typ = "ItemVar"
    /\ items[Len(items) - 1].Typ = "ItemLength"
    /\ items[Len(items) - 2].Typ = "ItemPrefix"
    /\ DigitRun(input, items[Len(items) - 1].Pos) >= 5

\* C9: when a ':' is followed by five or more digits, whatever the digits,
\* Parse fails with LengthOver9999Error at the offset of the first digit.
C9_LengthOver9999AtFirstDigit ==
    FiveDigits =>
       /\ ReturnedErr(LengthOver9999Error)
       /\ ByteAt(result.Pos - 1) = COLON
       /\ result.Pos = items[Len(items) - 1].Pos

\* C10: Parse never returns an UnimplementedError, and never gets to the end
\* of its loop over a closed channel without having returned.
C10_NeverUnimplemented ==
    /\ Parsing => result.Err.what # "UnimplementedError"
    /\ (Parsing /\ closed) => ppc = "returned"

\* "{/a.0*,0:1}" and more: every parser state has dealt with an item
C10_Witness ==
    /\ ReturnedAst
    /\ {"ItemRaw", "ItemSep", "ItemLacc", "ItemOp", "ItemVar", "ItemDot", "ItemComma",
        "ItemExplode", "ItemPrefix", "ItemLength", "ItemRacc", "ItemEOF"}
          \subseteq {handled[i].Typ : i \in 1..Len(handled)}

\* C11: when the text String() gives for an expression of an Ast that Parse
\* returned is parsed again, Parse returns no error but an Ast whose only
\* part is an expression equal to the first one: same operator, same
\* variables in the same order, each with the same path and modifier.
C11_ExprStringRoundTrip ==
    (orig # NoOrig /\ Returned) =>
        /\ ReturnedAst
        /\ result.ast.Parts = <<ExprPart(orig)>>

\* a round trip of an expression with an operator, a dotted path, an explode
\* and a prefix modifier
C11_Witness ==
    /\ orig # NoOrig
    /\ Returned
    /\ orig.Op > 0
    /\ \E i, j \in 1..Len(orig.Vars) :
          /\ Len(orig.Vars[i].ID) > 1
          /\ HasBit(orig.Vars[i].Mod, ModExplode)
          /\ HasBit(orig.Vars[j].Mod, ModPrefix)

\* the classes of RFC 6570: ALPHA, DIGIT and - . _ ~ are unreserved, the
\* gen-delims : / ? # [ ] @ and sub-delims ! $ & ' ( ) * + , ; = reserved
RFCUnreserved == (65..90) \cup (97..122) \cup (48..57) \cup {45, 46, 95, 126}
RFCReserved == {58, 47, 63, 35, 91, 93, 64,
                33, 36, 38, 39, 40, 41, 42, 43, 44, 59, 61}
ClassOf(c) == IF c \in RFCUnreserved THEN Unreserved
              ELSE IF c \in RFCReserved THEN Reserved
              ELSE Disallowed

\* the bytes of s whose class is selected by mask
Matching(s, mask) == {i \in 1..Len(s) : BitAnd(ClassOf(s[i]), mask) # 0}

HexDigit(n) == IF n < 10 THEN Digit0 + n ELSE 65 + (n - 10)
PercentTriplet(c) == <<PERCENT, HexDigit(c \div 16), HexDigit(c % 16)>>

EscReturned == esc.pc = "returned"

\* C12: what Escape(s, mask) returns is s with every byte whose class is
\* selected by mask replaced, where it stands, by '%' and its two upper-case
\* hex digits, and every other byte kept; its length is len(s) plus twice
\* the number of replaced bytes.
C12_EscapeReplacesMatchingBytes ==
    EscReturned =>
        /\ esc.out = Concat([i \in 1..Len(esc.s) |->
                                IF i \in Matching(esc.s, esc.mask)
                                THEN PercentTriplet(esc.s[i])
                                ELSE <<esc.s[i]>>])
        /\ Len(esc.out) = Len(esc.s) + 2 * Cardinality(Matching(esc.s, esc.mask))

\* a call that replaced one byte of a string and kept another one
C12_Witness ==
    /\ EscReturned
    /\ Cardinality(Matching(esc.s, esc.mask)) = 1
    /\ Len(esc.s) > 1
    /\ Len(esc.out) = Len(esc.s) + 2

\* C13: when no byte of s has a class that mask selects, Escape returns s
\* itself, from its first return statement; so it does for every s when
\* mask is 0.
C13_EscapeIdentity ==
    (EscReturned /\ Matching(esc.s, esc.mask) = {}) =>
        (esc.same /\ esc.out = esc.s)

\* a string that is not empty returned as it is under a mask that is not 0,
C13_Witness ==
    /\ EscReturned
    /\ esc.s # <<>>
    /\ esc.mask # 0
    /\ Matching(esc.s, esc.mask) = {}
    /\ esc.same

\* C14: the table Escape reads has 256 entries, and the entry of every byte value has
\* exactly one of the bits Disallowed, Unreserved and Reserved: Unreserved
\* for ALPHA, DIGIT and - . _ ~, Reserved for the gen-delims and sub-delims,
\* Disallowed for every other value.
C14_TruthTable ==
    esc.pc # "none" =>
        /\ Len(truth) = 256
        /\ \A c \in 0..255 :
              BitAnd(truthAt(c), Disallowed + Unreserved + Reserved) = ClassOf(c)

\* a call that looked up a byte of each class under the mask of all classes
C14_Witness ==
    /\ EscReturned
    /\ esc.mask = Disallowed + Unreserved + Reserved
    /\ {ClassOf(esc.s[i]) : i \in 1..Len(esc.s)} = {Disallowed, Unreserved, Reserved}
    /\ Len(esc.out) = 3 * Len(esc.s)

(***************************************************************************)
(* Properties of Execute.                                                  *)
(***************************************************************************)
InExpr == exec.pc \in {"vars", "write"}
TheExpr == exec.e.expr
TheOp == exec.e.expr.Op

\* the exprWriter as writeExpr has it when its loop begins
LoopStart == writeExprBegin(NewExprWriter(exec.data, TheExpr))

\* writeKvVariable or writeListVariable, as writeExpr's second switch says
writeVariable(e, v) ==
    IF e.expr.Op \in KvOps THEN writeKvVariable(e, v) ELSE writeListVariable(e, v)

\* the exprWriters that writing the variables vs[j], vs[j+1], ... can leave
RECURSIVE WriteVars(_, _, _)
WriteVars(e, vs, j) ==
    IF j > Len(vs) THEN {e}
    ELSE UNION {WriteVars(f, vs, j + 1) : f \in writeVariable(e, vs[j])}

Undefined(v) == findVariableValue(exec.data, v) = Invalid
DefinedOnly(vs) == SelectSeq(vs, LAMBDA v : ~Undefined(v))

\* the variables the loop has gone through
VarsDone == SubSeq(TheExpr.Vars, 1, exec.v - 1)

\* the first variable of the expression has just been written
FirstDone == exec.pc = "vars" /\ exec.v = 2
FirstVar == TheExpr.Vars[1]
FirstValue == findVariableValue(exec.data, FirstVar)
FirstKey == FirstVar.ID[Len(FirstVar.ID)]

EndsWith(b, t) == Len(b) >= Len(t) /\ SubSeq(b, Len(b) - Len(t) + 1, Len(b)) = t

\* the operators whose character is written in front of the expansion
SignOps == {35, 46, 47, 59, 63, 38}
Sign(op) == IF op \in SignOps THEN <<op>> ELSE <<>>

\* C15: a variable that resolves to undefined leaves the buffer and the
\* count of emitted variables as they were: at every point of writeExpr's
\* loop both are what the defined ones among the variables gone through
\* give on their own; and no error comes of it.
C15_UndefinedContributesNothing ==
    /\ (exec.pc = "vars") =>
          \E f \in WriteVars(LoopStart, DefinedOnly(VarsDone), 1) :
              f.buf = exec.e.buf /\ f.i = exec.e.i
    /\ (exec.pc # "none" /\ exec.failAt = 0) => exec.err = "nil"

\* an undefined variable gone through after a variable that was emitted
C15_Witness ==
    /\ exec.pc = "vars"
    /\ exec.v = 3
    /\ ~Undefined(TheExpr.Vars[1])
    /\ Undefined(TheExpr.Vars[2])
    /\ exec.e.i = 1

\* C16: under '#' and '.', when writeExpr returns with no variable emitted
\* its buffer is empty, the operator character gone with the rest; with a
\* variable emitted the buffer is what the loop left, operator character
\* first.
C16_EmptyFragmentAndLabel ==
    (exec.pc = "write" /\ TheOp \in {35, DOT}) =>
        \E f \in WriteVars(LoopStart, TheExpr.Vars, 1) :
            /\ f.i = exec.e.i
            /\ f.i = 0 => exec.e.buf = <<>>
            /\ f.i > 0 => (exec.e.buf = f.buf /\ Head(exec.e.buf) = TheOp)

\* '#' with every variable undefined: the buffer is empty
C16_Witness ==
    /\ exec.pc = "write"
    /\ TheOp = 35
    /\ \A j \in 1..Len(TheExpr.Vars) : Undefined(TheExpr.Vars[j])
    /\ exec.e.i = 0
    /\ exec.e.buf = <<>>

\* a string written under operator op: unreserved bytes as they are,
\* reserved ones too under '+' and '#', every other byte as a triplet
EncodeUnder(op, str) ==
    Concat([j \in 1..Len(str) |->
               IF \/ ClassOf(str[j]) = Unreserved
                  \/ (ClassOf(str[j]) = Reserved /\ op \in {43, 35})
               THEN <<str[j]>>
               ELSE PercentTriplet(str[j])])

\* C17: the mask is Disallowed under '+' and '#' and Disallowed|Reserved
\* under every other operator and with no operator; so a string value is
\* written with its reserved bytes kept under '+' and '#' only, its
\* disallowed bytes encoded and its unreserved bytes kept under every
\* operator.
C17_MaskByOperator ==
    /\ InExpr => exec.e.mask = (IF TheOp \in {43, 35} THEN Disallowed
                                ELSE Disallowed + Reserved)
    /\ (FirstDone /\ FirstValue.kind = "String" /\ FirstVar.Mod = ModNone) =>
          EndsWith(exec.e.buf, EncodeUnder(TheOp, FirstValue.s))

\* "a/" written under '+' with its '/' kept
C17_Witness ==
    /\ FirstDone
    /\ TheOp = 43
    /\ FirstVar.Mod = ModNone
    /\ FirstValue = StringValue(StrA)
    /\ exec.e.buf = StrA

\* C18: when writeExpr's loop begins the buffer holds the operator character
\* for # . / ; ? & and nothing for '+' and for no operator; and whenever a
\* variable has been emitted the buffer still begins with just that.
C18_OperatorPrefix ==
    /\ (exec.pc = "vars" /\ exec.v = 1) => exec.e.buf = Sign(TheOp)
    /\ (InExpr /\ exec.e.i > 0) =>
          /\ SubSeq(exec.e.buf, 1, Len(Sign(TheOp))) = Sign(TheOp)
          /\ \E f \in WriteVars([LoopStart EXCEPT !.buf = <<>>], VarsDone, 1) :
                exec.e.buf = Sign(TheOp) \o f.buf

\* '+' with a variable emitted, and nothing in front of it
C18_Witness ==
    /\ InExpr
    /\ exec.e.i > 0
    /\ TheOp = 43
    /\ FirstValue = StringValue(StrA)
    /\ Head(exec.e.buf) = LowerA

\* the number of bytes of a UTF-8 character, from its first byte
CharLen(b) == IF b < 128 THEN 1 ELSE IF b < 224 THEN 2 ELSE IF b < 240 THEN 3 ELSE 4

\* the number of bytes of the first n characters of str
RECURSIVE CharsLen(_, _)
CharsLen(str, n) ==
    IF n = 0 \/ str = <<>> THEN 0
    ELSE LET k == IF CharLen(str[1]) < Len(str) THEN CharLen(str[1]) ELSE Len(str)
         IN k + CharsLen(SubSeq(str, k + 1, Len(str)), n - 1)

FirstChars(str, n) == SubSeq(str, 1, CharsLen(str, n))

\* C19: a string value under Prefix(n) is written as Escape of its first n
\* characters (of all of it when it has no more than n), the cut made
\* before the escaping; under Prefix(0) nothing is written for the value.
C19_PrefixCutsCharacters ==
    (FirstDone /\ FirstValue.kind = "String" /\ HasBit(FirstVar.Mod, ModPrefix)) =>
        LET want == Escape(FirstChars(FirstValue.s, XorBit(FirstVar.Mod, ModPrefix)),
                           exec.e.mask)
        IN IF TheOp \in KvOps
           THEN EndsWith(exec.e.buf, want)
           ELSE exec.e.buf = Sign(TheOp) \o want

\* a defined string whose escaped value is empty, first under a key=value
\* operator
EmptyUnderKv ==
    /\ FirstDone
    /\ TheOp \in KvOps
    /\ FirstValue.kind = "String"
    /\ (FirstValue.s = <<>> \/ FirstVar.Mod = ModPrefix)

\* C20 as stated: under ';', '?' and '&' alike a defined string whose
\* escaped value is empty is written as its key alone, with no '='.
C20_EmptyValueKeyAlone ==
    EmptyUnderKv => exec.e.buf = <<TheOp>> \o FirstKey

\* C20, amended: a defined string whose escaped value is empty is written as
\* its key alone under ';', and as its key and '=' under '?' and '&'.
C20_EmptyValueKeyAloneUnderSemicolon ==
    EmptyUnderKv =>
        exec.e.buf = <<TheOp>> \o FirstKey \o (IF TheOp = 59 THEN <<>> ELSE <<61>>)

\* "?x=" for an empty x
C20_Witness ==
    /\ EmptyUnderKv
    /\ TheOp = 63
    /\ FirstValue.s = <<>>
    /\ exec.e.buf = <<63>> \o NameX \o <<61>>

\* a variable of the expression has just been written: the last one done,
\* its value, and the exprWriters the variables before it can have left
JustDone == exec.pc = "vars" /\ exec.v >= 2
LastVar == TheExpr.Vars[exec.v - 1]
LastValue == findVariableValue(exec.data, LastVar)
LastKey == LastVar.ID[Len(LastVar.ID)]
Before == WriteVars(LoopStart, SubSeq(TheExpr.Vars, 1, exec.v - 2), 1)

\* the variable separator of each operator
VarSepOf(op) == CASE op = DOT -> <<DOT>>
                  [] op = SLASH -> <<SLASH>>
                  [] op = 59 -> <<59>>
                  [] op \in {63, 38} -> <<38>>
                  [] OTHER -> <<COMMA>>

\* the strings of a list, each escaped as the operator asks
EncodedElems(v) == [j \in 1..Len(v.elems) |-> EncodeUnder(TheOp, v.elems[j].s)]

\* the elements of a list as items of their own, n items being there already
ExplodedItems(v, n) ==
    Concat([j \in 1..Len(v.elems) |->
               (IF n + j - 1 > 0 THEN VarSepOf(TheOp) ELSE <<>>) \o EncodedElems(v)[j]])

\* C21: under a list-style operator a list that is not exploded is written
\* as its escaped elements joined by ',' and counts as one emitted variable;
\* an exploded one is written element by element, the operator's variable
\* separator before every element but the first item of the expression, and
\* every element counts as an emitted variable.
C21_ListUnderListOperator ==
    (/\ JustDone
     /\ TheOp \notin KvOps
     /\ LastValue.kind = "Slice"
     /\ LastValue.elems # <<>>
     /\ ~HasBit(LastVar.Mod, ModPrefix)) =>
        \E f \in Before :
            IF HasBit(LastVar.Mod, ModExplode)
            THEN /\ exec.e.buf = f.buf \o ExplodedItems(LastValue, f.i)
                 /\ exec.e.i = f.i + Len(LastValue.elems)
            ELSE /\ exec.e.buf \in
                      {f.buf \o t \o Join(EncodedElems(LastValue), <<COMMA>>) :
                          t \in {<<>>, VarSepOf(TheOp)}}
                 /\ exec.e.i = f.i + 1

\* "{/y,x*}" with a string y and a list x of two: three items
C21_Witness ==
    /\ JustDone
    /\ exec.v = 3
    /\ TheOp = SLASH
    /\ HasBit(LastVar.Mod, ModExplode)
    /\ LastValue.kind = "Slice"
    /\ Len(LastValue.elems) = 2
    /\ exec.e.i = 3

\* the string of a scalar
ScalarText(v) == IF v.kind = "String" THEN v.s ELSE Itoa(v.n)
IsScalar(v) == v.kind \in {"String", "Int"}

\* the variables gone through are all scalars with a string that is not
\* empty and with no prefix modifier
ScalarsDone ==
    \A j \in 1..Len(VarsDone) :
        LET val == findVariableValue(exec.data, VarsDone[j])
        IN /\ IsScalar(val)
           /\ ScalarText(val) # <<>>
           /\ ~HasBit(VarsDone[j].Mod, ModPrefix)

\* key=value of variable v
KeyValue(v) ==
    v.ID[Len(v.ID)] \o <<61>>
    \o EncodeUnder(TheOp, ScalarText(findVariableValue(exec.data, v)))

\* C22: under ';', '?' and '&' the scalars written so far stand in the buffer
\* as the operator character, once, and then key=value for each of them, the
\* key being the last part of the variable's path, with the operator's
\* separator (';' for ';', '&' for '?' and '&') between them.
C22_KeyValueItems ==
    (JustDone /\ TheOp \in KvOps /\ ScalarsDone) =>
        exec.e.buf = <<TheOp>> \o Join([j \in 1..Len(VarsDone) |-> KeyValue(VarsDone[j])],
                                       VarSepOf(TheOp))

\* "{?x,y.k}": "?x=a%2F&k=a%2F"
C22_Witness ==
    /\ JustDone
    /\ exec.v = 3
    /\ TheOp = 63
    /\ ScalarsDone
    /\ Len(LastVar.ID) = 2
    /\ exec.e.buf = <<63>> \o NameX \o <<61>> \o EncodeUnder(63, StrA)
                     \o <<38>> \o NameK \o <<61>> \o EncodeUnder(63, StrA)

\* k1,v1,k2,v2,... of map m, its keys taken in the order ks
MapPairsText(m, ks) ==
    Join([j \in 1..(2 * Len(ks)) |->
             IF j % 2 = 1 THEN EncodeUnder(TheOp, ks[(j + 1) \div 2])
             ELSE EncodeUnder(TheOp, m[ks[j \div 2]].s)],
         <<COMMA>>)

\* C23: a map that is not exploded is written, wherever it stands in the
\* expression and whatever was written before it, as its escaped keys and
\* values k1,v1,k2,v2,... with one comma between them and none in front,
\* after "name=" under ';', '?' and '&' and with nothing in front under the
\* other operators.
C23_MapPairs ==
    (/\ JustDone
     /\ LastValue.kind = "Map"
     /\ DOMAIN LastValue.m # {}
     /\ ~HasBit(LastVar.Mod, ModExplode)) =>
        \E f \in Before, ks \in MapRange(LastValue.m), t \in {<<>>, VarSepOf(TheOp)} :
            exec.e.buf = f.buf \o t
                         \o (IF TheOp \in KvOps THEN LastKey \o <<61>> ELSE <<>>)
                         \o MapPairsText(LastValue.m, ks)

\* what writeExpr can leave in its buffer for expression x
Expansions(x) ==
    {writeExprEnd(f).buf :
        f \in WriteVars(writeExprBegin(NewExprWriter(exec.data, x)), x.Vars, 1)}

\* write j is what part j asks for
WriteOfPart(j) ==
    LET part == exec.ast.Parts[j]
    IN CASE part.kind = "string" -> exec.w[j] = part.val
         [] part.kind = "nil" -> exec.w[j] = <<SLASH>>
         [] OTHER -> exec.w[j] \in Expansions(part.expr)

ExecReturned == exec.pc = "returned"

\* C24: the writes the writer has accepted are, one for each part and in the
\* order of the parts, the string itself, "/" or the expansion of the
\* expression; Execute returns an error only when a write was rejected, and
\* then at once, with the writes before it done and none after it; with a
\* writer that rejects nothing it returns nil after a write for every part.
C24_WritesInOrder ==
    (exec.pc # "none") =>
        /\ Len(exec.w) <= Len(exec.ast.Parts)
        /\ \A j \in 1..Len(exec.w) : WriteOfPart(j)
        /\ exec.err # "nil" =>
              (ExecReturned /\ exec.failAt = Len(exec.w) + 1)
        /\ (ExecReturned /\ exec.err = "nil") => Len(exec.w) = Len(exec.ast.Parts)
        /\ (ExecReturned /\ exec.failAt = 0) => exec.err = "nil"
        /\ (ExecReturned /\ exec.failAt \in 1..Len(exec.ast.Parts)) => exec.err = "write"

\* "a/{...}" with a writer that takes "a" and rejects "/"
C24_Witness ==
    /\ ExecReturned
    /\ exec.err = "write"
    /\ exec.failAt = 2
    /\ exec.w = <<(<<LowerA>>)>>
    /\ Len(exec.ast.Parts) = 3

\* the values of the data that Execute can go through with MapRange
RangedMaps ==
    IF exec.data.kind # "Map" THEN {}
    ELSE {exec.data.m[n].m : n \in {k \in DOMAIN exec.data.m :
                                        exec.data.m[k].kind = "Map"}}

OneEntryMaps == \A m \in RangedMaps : Cardinality(DOMAIN m) <= 1

lexState(st, lx) ==
    CASE st = "lexPath" -> lexPath(lx)
      [] st = "lexRaw" -> lexRaw(lx)
      [] st = "lexPercent" -> lexPercent(lx)
      [] st = "lexBeginExpr" -> lexBeginExpr(lx)
      [] st = "lexInExpr" -> lexInExpr(lx)
      [] OTHER -> lexLength(lx)

RECURSIVE LexAll(_, _)
\* run's loop with the items gathered in a list and no channel
LexAll(st, lx) ==
    IF st = "nil" THEN <<>>
    ELSE LET r == lexState(st, lx) IN r.out \o LexAll(r.state, r.l)

\* everything the lexer scans from a text
Scanned(text) == LexAll("lexPath", [input |-> text, start |-> 0, pos |-> 0])

RECURSIVE ParseAll(_, _, _)
\* Parse's loop over a list of items
ParseAll(st, q, toks) ==
    IF toks = <<>> THEN ReturnAst(q)
    ELSE IF IsLexError(Head(toks))
    THEN ReturnError([q EXCEPT !.item = Head(toks)], LexerError)
    ELSE LET r == CallState(st, [q EXCEPT !.item = Head(toks)],
                            CHOOSE n \in IntOfNegInf : TRUE)
         IN IF r.err # NilErr THEN ReturnError(r.p, r.err)
            ELSE IF r.state = "nil" THEN ReturnAst(r.p)
            ELSE ParseAll(r.state, r.p, Tail(toks))

\* Parse with the lexer run to its end first
ParseSync(text) == ParseAll("pRaw", NewParser, Scanned(text))

IsPrefixOf(a, b) == Len(a) <= Len(b) /\ SubSeq(b, 1, Len(a)) = a

\* the items scanned and not received yet, the oldest first
Waiting == ch.buf \o (IF lpc = "send" THEN <<pending>> ELSE <<>>)

\* C27: at every moment at most one scanned item waits to be received; while
\* it waits the lexer goroutine is blocked in its send and scans nothing; and
\* the items received, followed by the one that waits, are the first items of
\* what the lexer scans from the input, in that order.
C27_OneItemAhead ==
    (consumer # "none") =>
        /\ Len(Waiting) <= 1
        /\ Waiting # <<>> => ~ENABLED Lexer
        /\ IsPrefixOf(items \o Waiting, Scanned(input))

\* "{a}": ItemLacc was received, ItemVar is scanned and waits
C27_Witness ==
    /\ input = <<LBRACE, LowerA, RBRACE>>
    /\ Len(items) = 1
    /\ lpc = "send"
    /\ pending.Typ = "ItemVar"
    /\ Len(Scanned(input)) > Len(items) + 1

\* C28: whatever the order in which the lexer goroutine and Parse run, and
\* whether the channel has a buffer or none, Parse returns what it returns
\* when the lexer has run to its end before Parse starts: the same Ast, or
\* the same error with the same message and offset.
C28_ResultOfInputOnly ==
    (consumer = "Parse" /\ ppc = "returned") => result = ParseSync(input)

\* a buffer of MaxCap items: Parse has returned an error while the lexer, which
\* ran ahead, has filled the buffer again and waits with one more item
C28_Witness ==
    /\ consumer = "Parse"
    /\ ppc = "returned"
    /\ ch.cap = MaxCap
    /\ Len(ch.buf) = MaxCap
    /\ lpc = "send"
    /\ result = ParseSync(input)
    /\ result.astNil

\* the input has only '/' and bytes a literal may have
SlashesAndRaw ==
    \A i \in 1..Len(input) :
        input[i] \notin {PERCENT, LBRACE} /\ ~IllegalRaw(input[i])

\* the end of the run of bytes other than '/' that starts at offset i
RECURSIVE RunEnd(_, _)
RunEnd(text, i) ==
    IF i >= Len(text) \/ text[i + 1] = SLASH THEN i ELSE RunEnd(text, i + 1)

\* type and text of the items the claim lists for the text from offset i on
RECURSIVE SlashItems(_, _)
SlashItems(text, i) ==
    IF i >= Len(text) THEN <<(<<"ItemEOF", <<>>>>)>>
    ELSE IF text[i + 1] = SLASH
    THEN <<(<<"ItemSep", <<SLASH>>>>)>> \o SlashItems(text, i + 1)
    ELSE <<(<<"ItemRaw", SubSeq(text, i + 1, RunEnd(text, i))>>)>>
         \o SlashItems(text, RunEnd(text, i))

TypVal(its) == [i \in 1..Len(its) |-> <<its[i].Typ, its[i].Val>>]

\* C29: when the input has only '/' and bytes a literal may have, the items
\* the lexer sends are an ItemSep for each '/', an ItemRaw for each longest
\* run of other bytes, in the order of the input, and then ItemEOF; no
\* ItemError is sent; for the empty input ItemEOF is the only item.
C29_SlashesAndLiterals ==
    (consumer # "none" /\ SlashesAndRaw) =>
        /\ IsPrefixOf(TypVal(items \o Waiting), SlashItems(input, 0))
        /\ Drained => TypVal(items) = SlashItems(input, 0)

\* "a//" was lexed to its end: ItemRaw "a", ItemSep, ItemSep, ItemEOF
C29_Witness ==
    /\ consumer = "collect"
    /\ ppc = "returned"
    /\ input = <<LowerA, SLASH, SLASH>>
    /\ Len(items) = 4
    /\ items[2].Typ = "ItemSep"
    /\ items[3].Typ = "ItemSep"

\* the last item received is the lexer's 'found illegal character'
IllegalFound ==
    /\ Len(items) > 0
    /\ Last(items).Typ = "ItemError"
    /\ Last(items).Msg.what = "found illegal character"

\* the byte at offset i is the one the message names, and a literal may not
\* have it
IllegalByteAt(i) ==
    /\ i >= 0
    /\ i < Len(input)
    /\ input[i + 1] = Last(items).Msg.c
    /\ IllegalRaw(input[i + 1])

\* no ItemRaw was sent for text that reaches offset i
NoRawOver(i) ==
    \A k \in 1..Len(items) :
        items[k].Typ = "ItemRaw" => items[k].Pos + Len(items[k].Val) <= i

\* C30: when the lexer finds in a literal a byte <= 0x20 or one of
\* " ' < > \ ^ | } `, it sends no ItemRaw for the run that has the byte, sends
\* the error 'found illegal character' as the last item of the stream, and
\* the Pos of the Error Parse returns is the 0-based offset of that byte.
C30_IllegalByteOffset ==
    (consumer = "Parse" /\ ppc = "returned" /\ IllegalFound) =>
        /\ ReturnedErr(LexerError)
        /\ lstate = "nil"
        /\ IllegalByteAt(result.Pos)
        /\ NoRawOver(result.Pos)

\* the writes of a call of Execute that has returned are those of the call
\* alone: for each part in turn what the part asks for with the call's data,
\* up to the write its writer rejects
ExecutedAlone(x) ==
    LET n == Len(x.ast0.Parts)
        asked(j) ==
            LET part == x.ast0.Parts[j]
            IN CASE part.kind = "string" -> {part.val}
                 [] part.kind = "nil" -> {<<SLASH>>}
                 [] OTHER ->
                      {writeExprEnd(f).buf :
                          f \in WriteVars(writeExprBegin(NewExprWriter(x.data, part.expr)),
                                          part.expr.Vars, 1)}
    IN /\ \A j \in 1..Len(x.w) : x.w[j] \in asked(j)
       /\ IF x.failAt \in 1..n
          THEN x.err = "write" /\ Len(x.w) = x.failAt - 1
          ELSE x.err = "nil" /\ Len(x.w) = n

\* a call that has returned has the result of the call alone
AsAlone(x) ==
    /\ (x.consumer = "Parse" /\ x.ppc = "returned") => x.result = ParseSync(x.input)
    /\ (x.consumer = "collect" /\ x.ppc = "returned") => x.items = Scanned(x.input)
    /\ (x.exec.pc = "returned") => ExecutedAlone(x.exec)

\* C26: with two calls of Parse, or two calls of Execute on the same Ast with
\* a writer each, running at the same time, the steps of their goroutines in
\* any order, each call returns what it returns alone.
C26_CallsShareNothing ==
    (other.id # 0) => (AsAlone(Own) /\ AsAlone(other.own))

\* the first call, Parse("{a:1}"), waits in the middle of its work while the
\* second, Parse("{a"), has returned its error
C26_Witness ==
    /\ other.id = 1
    /\ other.own.input = <<LBRACE, LowerA, COLON, Digit1, RBRACE>>
    /\ other.own.ppc = "range"
    /\ Len(other.own.items) = 2
    /\ input = <<LBRACE, LowerA>>
    /\ consumer = "Parse"
    /\ ppc = "returned"
    /\ ~result.errNil

\* the spellings of the hex digit of value n
HexSpellings(n) == IF n < 10 THEN {Digit0 + n} ELSE {97 + (n - 10), 65 + (n - 10)}

\* the byte two hex digits spell
SpelledByte(x, y) ==
    CHOOSE b \in 0..255 : x \in HexSpellings(b \div 16) /\ y \in HexSpellings(b % 16)

IsHexDigit(x) == \E n \in 0..15 : x \in HexSpellings(n)

\* C31: a step of the lexer that stands after a '%': with two hex digits next
\* it sends one ItemRaw whose value is the one byte they spell, moves past
\* them and goes on in lexPath; with fewer than two bytes left it sends the
\* error 'expected two hex digits', and with two bytes of which one is no hex
\* digit that error with the first such byte; after the error the lexer has
\* no state function left and has sent no ItemRaw for the '%'.
C31_PercentDecoding ==
    [][(lstate = "lexPercent" /\ lpc = "run" /\ lpc' = "send") =>
         LET left == Len(input) - l.pos
             x == input[l.pos + 1]
             y == input[l.pos + 2]
         IN /\ input[l.pos] = PERCENT
            /\ IF left < 2
               THEN /\ pending'.Typ = "ItemError"
                    /\ pending'.Msg = ErrorUnfinishedPercent
                    /\ lstate' = "nil"
               ELSE IF IsHexDigit(x) /\ IsHexDigit(y)
               THEN /\ pending'.Typ = "ItemRaw"
                    /\ pending'.Val = <<SpelledByte(x, y)>>
                    /\ l'.pos = l.pos + 2
                    /\ lstate' = "lexPath"
               ELSE /\ pending'.Typ = "ItemError"
                    /\ pending'.Msg = ErrorIllegalPercent(IF IsHexDigit(x) THEN y ELSE x)
                    /\ lstate' = "nil"]_vars

\* "a%Fe": ItemRaw "a", then ItemRaw with the byte 0xFE, then ItemEOF
C31_Witness ==
    /\ input = <<LowerA, PERCENT, 70, 101>>
    /\ consumer = "collect"
    /\ ppc = "returned"
    /\ Len(items) = 3
    /\ items[2].Typ = "ItemRaw"
    /\ items[2].Val = <<254>>

AtMostFour(n) == IF n > 4 THEN 4 ELSE n

\* C32: a step of the lexer that stands after a ':' sends as one ItemLength
\* the digits that follow, all of them up to four and the first four of more,
\* stands after them and goes on in lexInExpr; with no digit there it sends
\* the error 'expected length' and stops. And in every Ast Parse returns a
\* Prefix has a length from 0 to 9999.
C32_LengthOfFourDigits ==
    /\ [][(lstate = "lexLength" /\ lpc = "run" /\ lpc' = "send") =>
            LET n == AtMostFour(DigitRun(input, l.pos))
            IN /\ input[l.pos] = COLON
               /\ IF n = 0
                  THEN /\ pending'.Typ = "ItemError"
                       /\ pending'.Msg = ErrorExpectedLength
                       /\ lstate' = "nil"
                  ELSE /\ pending'.Typ = "ItemLength"
                       /\ pending'.Val = SubSeq(input, l.pos + 1, l.pos + n)
                       /\ l'.pos = l.pos + n
                       /\ lstate' = "lexInExpr"]_vars
    /\ [](ReturnedAst =>
            \A v \in AstVars(result.ast.Parts) :
               HasBit(v.Mod, ModPrefix) =>
                  (XorBit(v.Mod, ModPrefix) >= 0 /\ XorBit(v.Mod, ModPrefix) <= 9999))

\* "{a:11111": the ItemLength "1111" was received, and then the fifth digit
\* as an ItemVar
C32_Witness ==
    /\ consumer = "collect"
    /\ Len(items) >= 5
    /\ items[4].Typ = "ItemLength"
    /\ items[4].Val = <<Digit1, Digit1, Digit1, Digit1>>
    /\ items[5].Typ = "ItemVar"
    /\ items[5].Val = <<Digit1>>

\* what a pointer or an interface leads to in the end; undefined when nil
RECURSIVE Pointee(_)
Pointee(v) == IF v.kind = "Ptr" THEN Pointee(v.elem) ELSE v

\* the value found under a segment in a value: the entry of a map with that
\* key; the field of a record with that name, and with no such field the
\* first field with that tag; undefined in every other case
Under(cur, seg) ==
    IF cur.kind = "Map"
    THEN (IF seg \in DOMAIN cur.m THEN Pointee(cur.m[seg]) ELSE Invalid)
    ELSE IF cur.kind = "Struct"
    THEN LET n == Len(cur.fields)
             named(i) == cur.fields[i].name = seg
             tagged(i) == cur.fields[i].tag = seg
         IN IF \E i \in 1..n : named(i)
            THEN Pointee(cur.fields[CHOOSE i \in 1..n : named(i)].val)
            ELSE IF \E i \in 1..n : tagged(i)
            THEN Pointee(cur.fields[CHOOSE i \in 1..n :
                             tagged(i) /\ \A j \in 1..(i - 1) : ~tagged(j)].val)
            ELSE Invalid
    ELSE Invalid

\* the segments taken from the left, one after the other
RECURSIVE Resolved(_, _, _)
Resolved(cur, id, j) ==
    IF j > Len(id) THEN cur ELSE Resolved(Under(cur, id[j]), id, j + 1)

\* C33: the pass of writeExpr's loop for a variable: when a segment of its
\* path, taken from the left, is missing or the value reached is neither a
\* map nor a record, the pass writes nothing and counts nothing (and no error
\* comes of it); when the path leads to a string, the pass ends with that
\* string, escaped, at the end of the buffer.
C33_DottedLookup ==
    /\ [][(exec.pc = "vars" /\ exec'.pc = "vars" /\ exec'.v = exec.v + 1) =>
            LET var == exec.e.expr.Vars[exec.v]
                val == Resolved(exec.data, var.ID, 1)
            IN /\ findVariableValue(exec.data, var) = val
               /\ val = Invalid => exec'.e = exec.e
               /\ val.kind = "String" =>
                     /\ exec'.e.i = exec.e.i + 1
                     /\ EndsWith(exec'.e.buf, Escape(val.s, exec.e.mask))]_vars
    /\ [](exec.pc # "none" => exec.err = "nil")

\* "{?x.t,x.k}" on a struct whose field tagged x holds
\* struct{t string `uri:"k"`; k string `uri:"t"`}: the names are found
C33_Witness ==
    /\ exec.pc = "returned"
    /\ exec.data.kind = "Struct"
    /\ exec.ast.Parts = <<ExprPart([Op |-> 63,
                           Vars |-> <<[ID |-> <<NameX, NameT>>, Mod |-> ModNone],
                                      [ID |-> <<NameX, NameK>>, Mod |-> ModNone]>>])>>
    /\ exec.w = <<(<<63>> \o NameT \o <<61>> \o Str0 \o <<38>> \o NameK \o <<61>> \o Str1)>>

AsFirst(v) ==
    {[text |-> SubSeq(f.buf, Len(Sign(TheOp)) + 1, Len(f.buf)), n |-> f.i] :
        f \in writeVariable(LoopStart, v)}

\* a pass of writeExpr's loop
Pass == exec.pc = "vars" /\ exec'.pc = "vars" /\ exec'.v = exec.v + 1

\* C35: in an expression, while the counter of emitted variables is zero the
\* buffer has nothing but the operator's prefix; and a pass of the loop adds
\* to the buffer what its variable writes as the first of an expression (one
\* item, several for an exploded value, none for an undefined or empty one),
\* after one variable separator when it writes an item and an item was
\* emitted before, and after nothing otherwise: whatever the kind of the
\* value, and under every operator.
C35_SeparatorBetweenItems ==
    /\ []((exec.pc = "vars" /\ exec.e.i = 0) => exec.e.buf = Sign(TheOp))
    /\ [][Pass =>
            \E it \in AsFirst(exec.e.expr.Vars[exec.v]) :
               /\ exec'.e.i = exec.e.i + it.n
               /\ exec'.e.buf =
                     exec.e.buf
                     \o (IF exec.e.i > 0 /\ it.n > 0 THEN <<exec.e.varsep>> ELSE <<>>)
                     \o it.text]_vars

\* every variable of the expression is undefined in the context
AllUndefined == \A j \in 1..Len(TheExpr.Vars) : Undefined(TheExpr.Vars[j])

\* C36: under every operator, what writeExpr leaves in the buffer for an
\* expression all of whose variables are undefined is the empty string: no
\* operator prefix, no separator and no key.
C36_AllUndefinedIsEmpty ==
    (exec.pc = "write" /\ AllUndefined) => exec.e.buf = <<>>

\* items[j] is the item that sets a modifier: '*', or the length after ':'
SetsModifier(j) == items[j].Typ \in {"ItemExplode", "ItemLength"}

\* C37: while the variable being read has a modifier, the next item Parse
\* receives is a ',' or a '}', or Parse returns an error on it ('.' included);
\* and among the items of a returned Ast no name follows a '*' or a length
\* within the same variable.
C37_OnlyCommaOrBraceAfterModifier ==
    /\ [][(Parsing /\ p.variable.Mod # ModNone /\ items' # items) =>
            \/ Last(items').Typ \in {"ItemComma", "ItemRacc"}
            \/ ppc' = "returned" /\ ~result'.errNil]_vars
    /\ [](ReturnedAst =>
            \A j \in 1..Len(items) : \A k \in j..Len(items) :
                (SetsModifier(j) /\ items[k].Typ = "ItemVar") => ~SameVariable(j, k))

\* Parse has returned an error
ReturnedAnError == Returned /\ ~result.errNil

\* C38: the Pos of every error Parse returns is an offset of the input or
\* its length: 0 <= Pos <= len(input).
C38_PosWithinInput ==
    ReturnedAnError => (result.Pos >= 0 /\ result.Pos <= Len(input))

\* the indices of the received items of type typ, in order
IndicesOf(typ) ==
    SelectSeq([j \in 1..Len(items) |-> j], LAMBDA j : items[j].Typ = typ)

\* the operator written after the '{' received as item s, 0 when there is none
OpWritten(s) == IF items[s + 1].Typ = "ItemOp" THEN items[s + 1].Val[1] ELSE 0

\* the variable written by the items a..b: its names in order, and its '*'
\* or its length
VarWritten(a, b) ==
    LET its == SubSeq(items, a, b)
        names == SelectSeq(its, LAMBDA it : it.Typ = "ItemVar")
        stars == SelectSeq(its, LAMBDA it : it.Typ = "ItemExplode")
        lens == SelectSeq(its, LAMBDA it : it.Typ = "ItemLength")
    IN [ID |-> [j \in 1..Len(names) |-> names[j].Val],
        Mod |-> IF stars # <<>> THEN ModExplode
                ELSE IF lens # <<>> THEN ModPrefix + Atoi(lens[1].Val)
                ELSE ModNone]

\* the expression written between the '{' received as item s and the '}'
\* received as item e: the variables are what the ','s separate
ExprWritten(s, e) ==
    LET cs == SelectSeq(IndicesOf("ItemComma"), LAMBDA j : s < j /\ j < e)
        from(m) == IF m = 1 THEN s + 1 ELSE cs[m - 1] + 1
        to(m) == IF m = Len(cs) + 1 THEN e - 1 ELSE cs[m] - 1
    IN [Op |-> OpWritten(s),
        Vars |-> [m \in 1..(Len(cs) + 1) |-> VarWritten(from(m), to(m))]]

\* the expressions of the returned Ast, in order
ExprsReturned ==
    LET ps == SelectSeq(result.ast.Parts, LAMBDA part : part.kind = "Expr")
    IN [n \in 1..Len(ps) |-> ps[n].expr]

\* C39: in a returned Ast there is one Expression for each '{' of the
\* template, in order, and each has the operator written after its own '{'
\* (0 when none is) and, for each of its variables, the names and the
\* modifier written for that variable and nothing of another variable or
\* expression.
C39_NothingLeaks ==
    ReturnedAst =>
        LET ls == IndicesOf("ItemLacc")
            rs == IndicesOf("ItemRacc")
        IN /\ Len(ls) = Len(rs)
           /\ ExprsReturned = [n \in 1..Len(ls) |-> ExprWritten(ls[n], rs[n])]

\* "{/a.0*,0:1}{a}{/a.0*,0:1}": expressions with different operators and
\* variables with different modifiers follow each other
C39_Witness ==
    /\ ReturnedAst
    /\ Len(ExprsReturned) = 3
    /\ ExprsReturned[1].Op = SLASH
    /\ ExprsReturned[1].Vars[1] = [ID |-> <<<<LowerA>>, <<Digit0>>>>, Mod |-> ModExplode]
    /\ ExprsReturned[1].Vars[2] = [ID |-> <<<<Digit0>>>>, Mod |-> ModPrefix + 1]
    /\ ExprsReturned[2] = [Op |-> 0, Vars |-> <<[ID |-> <<<<LowerA>>>>, Mod |-> ModNone]>>]
    /\ ExprsReturned[3] = ExprsReturned[1]

\* the parts of the returned Ast
PartsReturned == result.ast.Parts

\* C40: in a returned Ast every Expression has at least one variable, every
\* variable has at least one path segment and none of its segments is
\* empty, no Literal part is the empty string, and no Literal part is next
\* to another Literal part.
C40_AstWellFormed ==
    ReturnedAst =>
        /\ \A i \in 1..Len(PartsReturned) :
              LET part == PartsReturned[i]
              IN /\ part.kind = "Expr" =>
                       /\ Len(part.expr.Vars) >= 1
                       /\ \A j \in 1..Len(part.expr.Vars) :
                             LET id == part.expr.Vars[j].ID
                             IN /\ Len(id) >= 1
                                /\ \A k \in 1..Len(id) : id[k] # <<>>
                 /\ part.kind = "string" => part.val # <<>>
        /\ \A i \in 1..(Len(PartsReturned) - 1) :
              ~(PartsReturned[i].kind = "string" /\ PartsReturned[i + 1].kind = "string")

\* "a%a0a{a}": three raw items in a row make one Literal part, and the
\* expression after it has its variable
C40_Witness ==
    /\ ReturnedAst
    /\ Len(items) > 3
    /\ \A j \in 1..3 : items[j].Typ = "ItemRaw"
    /\ Len(PartsReturned) = 2
    /\ PartsReturned[1] = StringPart(<<LowerA, 160, LowerA>>)
    /\ PartsReturned[2].kind = "Expr"
    /\ Len(PartsReturned[2].expr.Vars) = 1

====
